---- MODULE Spec2Model ----
(***************************************************************************)
(* Model of the mi-switch client for the Xiaomi Mi LAN protocol            *)
(* (src/xiaomi.go): token decoding, the discovery exchange, the command    *)
(* exchange, the packet codec and the payload encryption.                  *)
(*                                                                         *)
(* Bytes are the integers 0..255 and byte slices are sequences (the byte   *)
(* at Go offset i is element i+1).  The library primitives the code calls  *)
(* are modelled by small stand-ins with the same algebra: md5.Sum is a     *)
(* position-sensitive 16-byte digest, the AES block is a keyed invertible  *)
(* byte transformation of a 16-byte block, CBC chaining is the real one.   *)
(***************************************************************************)
EXTENDS Integers, Sequences, FiniteSets, TLC

\* ------------------------------------------------------------------ bounds
MaxPlainLen == 33
MaxPayloadLen == 34
NumCalls == 2

NumHandlers == 2

MaxRequests == 2

\* ------------------------------------------------------- program constants
BlockSize == 16
HeaderLen == 32
BufSize == 1024
MinHelloLen == 16
Uint16Mod == 65536
MaxSwitch == 6

\* ------------------------------------------------------------ byte helpers
Min(a, b) == IF a < b THEN a ELSE b

Zeros(n) == [i \in 1..n |-> 0]

Fill(n, b) == [i \in 1..n |-> b]

\* Go slice expression s[lo:hi] (0-based, hi exclusive)
Slice(s, lo, hi) == SubSeq(s, lo + 1, hi)

\* Go copy(dst[off:lim], src): copies min(lim-off, len(src)) bytes
Copy(dst, off, lim, src) ==
    LET n == Min(lim - off, Len(src))
    IN SubSeq(dst, 1, off) \o SubSeq(src, 1, n) \o SubSeq(dst, off + n + 1, Len(dst))

RECURSIVE Xor(_, _)
Xor(a, b) ==
    IF a = 0 THEN b
    ELSE IF b = 0 THEN a
    ELSE ((a + b) % 2) + 2 * Xor(a \div 2, b \div 2)

XorBlock(x, y) == [i \in 1..BlockSize |-> Xor(x[i], y[i])]

\* ------------------------------------------------------------------ digest
RECURSIVE SumRange(_, _, _)
SumRange(s, lo, hi) ==
    IF lo > hi THEN 0
    ELSE IF lo = hi THEN s[lo]
    ELSE LET mid == (lo + hi) \div 2
         IN SumRange(s, lo, mid) + SumRange(s, mid + 1, hi)

RECURSIVE WeightedSumRange(_, _, _)
WeightedSumRange(s, lo, hi) ==
    IF lo > hi THEN 0
    ELSE IF lo = hi THEN ((lo % 256) * s[lo]) % 256
    ELSE LET mid == (lo + hi) \div 2
         IN (WeightedSumRange(s, lo, mid) + WeightedSumRange(s, mid + 1, hi)) % 256

\* md5.Sum stand-in: 16 bytes, every one depending on every input byte, on
\* its position and on the input length.
md5sum(data) ==
    LET a == SumRange(data, 1, Len(data))
        w == WeightedSumRange(data, 1, Len(data))
        n == Len(data)
    IN [j \in 1..16 |-> (w * (2 * j + 1) + a * j + 7 * n + 31 * j + 5) % 256]

\* ------------------------------------------------------------------ cipher
\* aes block stand-in: a keyed bijection on 16-byte blocks
EncryptBlock(key, b) ==
    [i \in 1..BlockSize |-> (b[(i % BlockSize) + 1] + key[i] + i) % 256]

DecryptBlock(key, c) ==
    [j \in 1..BlockSize |->
        LET i == ((j + BlockSize - 2) % BlockSize) + 1
        IN (c[i] + 512 - key[i] - i) % 256]

BlockAt(s, k) == SubSeq(s, (k - 1) * BlockSize + 1, k * BlockSize)

\* cipher.NewCBCEncrypter(block, iv).CryptBlocks: c_k = E(p_k xor c_{k-1})
RECURSIVE CBCEncryptFrom(_, _, _, _)
CBCEncryptFrom(key, prev, src, k) ==
    IF k > Len(src) \div BlockSize THEN <<>>
    ELSE LET c == EncryptBlock(key, XorBlock(BlockAt(src, k), prev))
         IN c \o CBCEncryptFrom(key, c, src, k + 1)

CBCEncrypt(key, iv, src) == CBCEncryptFrom(key, iv, src, 1)

\* cipher.NewCBCDecrypter(block, iv).CryptBlocks: p_k = D(c_k) xor c_{k-1}
RECURSIVE CBCDecryptFrom(_, _, _, _)
CBCDecryptFrom(key, prev, src, k) ==
    IF k > Len(src) \div BlockSize THEN <<>>
    ELSE LET c == BlockAt(src, k)
         IN XorBlock(DecryptBlock(key, c), prev) \o CBCDecryptFrom(key, c, src, k + 1)

CBCDecrypt(key, iv, src) == CBCDecryptFrom(key, iv, src, 1)

DeriveKey(token) == md5sum(token)

DeriveIV(token) == md5sum(DeriveKey(token) \o token)

\* mutant of PadLen: no padding for a plaintext of whole blocks
PadLenNoFullBlock(n) == (BlockSize - (n % BlockSize)) % BlockSize

\* PKCS7 padding of encryptPayload
PadLen(n) == BlockSize - (n % BlockSize)

\* mutant of Pad: the right number of pad bytes, but zero bytes
PadWithZeros(data) == data \o Fill(PadLen(Len(data)), 0)

Pad(data) == data \o Fill(PadLen(Len(data)), PadLen(Len(data)))

encryptPayload(data, token) ==
    [err |-> FALSE,
     out |-> CBCEncrypt(DeriveKey(token), DeriveIV(token), Pad(data))]

\* padding strip of decryptPayload
\* mutant of Unpad: any last byte that fits the plaintext is taken as padding
UnpadAnyLength(plaintext) ==
    IF Len(plaintext) > 0
    THEN LET pad == plaintext[Len(plaintext)]
         IN IF pad > 0 /\ pad <= Len(plaintext)
            THEN SubSeq(plaintext, 1, Len(plaintext) - pad)
            ELSE plaintext
    ELSE plaintext

Unpad(plaintext) ==
    IF Len(plaintext) > 0
    THEN LET pad == plaintext[Len(plaintext)]
         IN IF pad > 0 /\ pad <= BlockSize /\ pad <= Len(plaintext)
            THEN SubSeq(plaintext, 1, Len(plaintext) - pad)
            ELSE plaintext
    ELSE plaintext

\* mutant of decryptPayload: a ragged input is cut to whole blocks, not refused
decryptPayloadCutting(encryptedData, token) ==
    [err |-> FALSE,
     out |-> Unpad(CBCDecrypt(DeriveKey(token), DeriveIV(token),
                              SubSeq(encryptedData, 1,
                                     Len(encryptedData) - (Len(encryptedData) % BlockSize))))]

decryptPayload(encryptedData, token) ==
    IF Len(encryptedData) % BlockSize # 0
    THEN [err |-> TRUE, out |-> <<>>]
    ELSE [err |-> FALSE,
          out |-> Unpad(CBCDecrypt(DeriveKey(token), DeriveIV(token), encryptedData))]

\* ------------------------------------------------------------ packet codec
\* mutant of LengthField: the length of the payload alone
LengthFieldOfPayload(n) == (n - HeaderLen) % Uint16Mod

LengthField(n) == n % Uint16Mod

\* buildPacket up to the point where the checksum is computed
UnsealedPacket(deviceID, stamp, encryptedData) ==
    LET n == HeaderLen + Len(encryptedData)
        p0 == Zeros(n)
        p1 == [p0 EXCEPT ![1] = 33, ![2] = 49]
        length == LengthField(n)
        p2 == [p1 EXCEPT ![3] = (length \div 256) % 256, ![4] = length % 256]
        p3 == Copy(p2, 8, 12, deviceID)
        p4 == Copy(p3, 12, 16, stamp)
    IN Copy(p4, 32, n, encryptedData)

\* mutant of ChecksumInput: the header as it is before id and stamp are copied in
ChecksumInputBeforeIdentity(pkt, token, encryptedData) ==
    SubSeq(pkt, 1, 8) \o Zeros(8) \o token \o encryptedData

ChecksumInput(pkt, token, encryptedData) ==
    LET n == 16 + Len(token) + Len(encryptedData)
        c0 == Zeros(n)
        c1 == Copy(c0, 0, 16, Slice(pkt, 0, 16))
        c2 == Copy(c1, 16, n, token)
    IN Copy(c2, 16 + Len(token), n, encryptedData)

buildPacket(token, deviceID, stamp, encryptedData) ==
    LET pkt == UnsealedPacket(deviceID, stamp, encryptedData)
        sum == md5sum(ChecksumInput(pkt, token, encryptedData))
    IN Copy(pkt, 16, 32, sum)

\* ------------------------------------------------------------ token strings
\* A token string is a sequence of one-character strings.
HexLower == <<"0", "1", "2", "3", "4", "5", "6", "7", "8", "9", "a", "b", "c", "d", "e", "f">>

HexUpper == <<"0", "1", "2", "3", "4", "5", "6", "7", "8", "9", "A", "B", "C", "D", "E", "F">>

\* hex.reverseHexTable: the digit's value, or 255 for a character that is no hex digit
fromHexChar(ch) ==
    IF \E i \in 1..16 : HexLower[i] = ch THEN (CHOOSE i \in 1..16 : HexLower[i] = ch) - 1
    ELSE IF \E i \in 1..16 : HexUpper[i] = ch THEN (CHOOSE i \in 1..16 : HexUpper[i] = ch) - 1
    ELSE 255

\* hex.DecodeString: an error for a non-hex character or an odd length,
\* otherwise one byte per pair of digits (no check of the number of bytes)
HexDecodeString(s) ==
    IF (\E i \in 1..Len(s) : fromHexChar(s[i]) > 15) \/ Len(s) % 2 = 1
    THEN [err |-> TRUE, out |-> <<>>]
    ELSE [err |-> FALSE,
          out |-> [k \in 1..(Len(s) \div 2) |->
                      16 * fromHexChar(s[2 * k - 1]) + fromHexChar(s[2 * k])]]

TokenA ==
    <<"a", "1", "b", "2", "c", "3", "d", "4", "e", "5", "f", "6", "a", "1", "b", "2",
      "c", "3", "d", "4", "e", "5", "f", "6", "a", "1", "b", "2", "c", "3", "d", "4">>

TokenB ==
    <<"0", "0", "1", "1", "2", "2", "3", "3", "4", "4", "5", "5", "6", "6", "7", "7",
      "8", "8", "9", "9", "A", "A", "B", "B", "C", "C", "D", "D", "E", "E", "F", "F">>

\* the token strings a caller may pass: two well-formed ones, and malformed
\* ones: empty, 30, 31, 33 and 34 hex digits, and 32 characters one of which
\* is no hex digit
TokenStrings ==
    { TokenA, TokenB, <<>>,
      SubSeq(TokenA, 1, 30), SubSeq(TokenA, 1, 31),
      TokenA \o <<"0">>, TokenA \o <<"0", "1">>,
      [TokenA EXCEPT ![5] = "g"], [TokenB EXCEPT ![32] = "-"] }

WellFormedToken(s) ==
    Len(s) = 32 /\ \A i \in 1..32 : fromHexChar(s[i]) <= 15

\* the secrets a device may hold
DeviceTokens == { HexDecodeString(TokenA).out, HexDecodeString(TokenB).out }

\* --------------------------------------------------------------- JSON texts
\* json.Marshal of the command maps (object keys in sorted order), as ASCII
\* {"id":1,"method":"get_prop","params":["power"]}
CmdGetProp ==
    <<123, 34, 105, 100, 34, 58, 49, 44, 34, 109, 101, 116, 104, 111, 100, 34,
      58, 34, 103, 101, 116, 95, 112, 114, 111, 112, 34, 44, 34, 112, 97, 114,
      97, 109, 115, 34, 58, 91, 34, 112, 111, 119, 101, 114, 34, 93, 125>>

\* {"id":1,"method":"set_power","params":["on"]}
CmdSetOn ==
    <<123, 34, 105, 100, 34, 58, 49, 44, 34, 109, 101, 116, 104, 111, 100, 34,
      58, 34, 115, 101, 116, 95, 112, 111, 119, 101, 114, 34, 44, 34, 112, 97,
      114, 97, 109, 115, 34, 58, 91, 34, 111, 110, 34, 93, 125>>

\* {"id":1,"method":"set_power","params":["off"]}
CmdSetOff ==
    <<123, 34, 105, 100, 34, 58, 49, 44, 34, 109, 101, 116, 104, 111, 100, 34,
      58, 34, 115, 101, 116, 95, 112, 111, 119, 101, 114, 34, 44, 34, 112, 97,
      114, 97, 109, 115, 34, 58, 91, 34, 111, 102, 102, 34, 93, 125>>

\* texts a device may answer with, as ASCII
\* {"id":1,"result":["on"]}
DocOn ==
    <<123, 34, 105, 100, 34, 58, 49, 44, 34, 114, 101, 115, 117, 108, 116, 34,
      58, 91, 34, 111, 110, 34, 93, 125>>

\* {"id":1,"result":["off"]}
DocOff ==
    <<123, 34, 105, 100, 34, 58, 49, 44, 34, 114, 101, 115, 117, 108, 116, 34,
      58, 91, 34, 111, 102, 102, 34, 93, 125>>

\* {"id":1,"result":["ON"]}
DocUpper ==
    <<123, 34, 105, 100, 34, 58, 49, 44, 34, 114, 101, 115, 117, 108, 116, 34,
      58, 91, 34, 79, 78, 34, 93, 125>>

\* {"id":1,"result":["off","on"]}
DocTwo ==
    <<123, 34, 105, 100, 34, 58, 49, 44, 34, 114, 101, 115, 117, 108, 116, 34,
      58, 91, 34, 111, 102, 102, 34, 44, 34, 111, 110, 34, 93, 125>>

\* {"id":1,"result":[null]}
DocNull ==
    <<123, 34, 105, 100, 34, 58, 49, 44, 34, 114, 101, 115, 117, 108, 116, 34,
      58, 91, 110, 117, 108, 108, 93, 125>>

\* {"id":1,"result":[]}
DocEmpty ==
    <<123, 34, 105, 100, 34, 58, 49, 44, 34, 114, 101, 115, 117, 108, 116, 34,
      58, 91, 93, 125>>

\* {"id":1,"error":"x"}
DocNoResult ==
    <<123, 34, 105, 100, 34, 58, 49, 44, 34, 101, 114, 114, 111, 114, 34, 58,
      34, 120, 34, 125>>

\* {"id":1,"result":[1]}
DocNumber ==
    <<123, 34, 105, 100, 34, 58, 49, 44, 34, 114, 101, 115, 117, 108, 116, 34,
      58, 91, 49, 93, 125>>

\* {"id":1,        "result":["on"]}
DocOnBlocks ==
    <<123, 34, 105, 100, 34, 58, 49, 44, 32, 32, 32, 32, 32, 32, 32, 32,
      34, 114, 101, 115, 117, 108, 116, 34, 58, 91, 34, 111, 110, 34, 93, 125>>

\* not json
DocJunk ==
    <<110, 111, 116, 32, 106, 115, 111, 110>>

\* {"id":1,"result":["on"
DocTruncated ==
    <<123, 34, 105, 100, 34, 58, 49, 44, 34, 114, 101, 115, 117, 108, 116, 34,
      58, 91, 34, 111, 110, 34>>

\* json.Unmarshal into struct{ Result []string `json:"result"` }, on the texts
\* above: the decoded Result, or an error.  A null element leaves the string
\* empty, a missing "result" leaves the slice nil, a number element is a type
\* error; every other byte string of the model is no JSON text.
JsonTexts ==
    { [text |-> DocOn, err |-> FALSE, result |-> <<"on">>],
      [text |-> DocOff, err |-> FALSE, result |-> <<"off">>],
      [text |-> DocUpper, err |-> FALSE, result |-> <<"ON">>],
      [text |-> DocTwo, err |-> FALSE, result |-> <<"off", "on">>],
      [text |-> DocNull, err |-> FALSE, result |-> <<"">>],
      [text |-> DocEmpty, err |-> FALSE, result |-> <<>>],
      [text |-> DocNoResult, err |-> FALSE, result |-> <<>>],
      [text |-> DocNumber, err |-> TRUE, result |-> <<>>],
      [text |-> DocOnBlocks, err |-> FALSE, result |-> <<"on">>] }

jsonUnmarshal(data) ==
    IF \E j \in JsonTexts : j.text = data
    THEN LET j == CHOOSE j \in JsonTexts : j.text = data
         IN [err |-> j.err, result |-> j.result]
    ELSE [err |-> TRUE, result |-> <<>>]

DeviceTexts ==
    { DocOn, DocOff, DocUpper, DocTwo, DocNull, DocEmpty, DocNoResult, DocNumber,
      DocOnBlocks, DocJunk, DocTruncated, <<>> }

\* ---------------------------------------------------------------- datagrams
\* mutant of HelloFrame: the filler left at the zero bytes of make
HelloFrameZeroFilled == <<33, 49, 0, 32>> \o Zeros(28)

\* the hello frame of discoverDevice
HelloFrame == <<33, 49, 0, 32>> \o Fill(28, 255)

\* the identities a device may announce
Identities ==
    { [id |-> <<0, 0, 0, 1>>, stamp |-> <<0, 0, 0, 2>>],
      [id |-> <<222, 173, 190, 239>>, stamp |-> <<1, 2, 3, 4>>] }

HelloReplyFrame(ident) ==
    <<33, 49, 0, 32, 0, 0, 0, 0>> \o ident.id \o ident.stamp \o Fill(16, 255)

HelloLens == {0, 12, 15, 16, 32}

\* a read on a socket ends with an error (deadline, refused, closed) or with
\* one datagram
ReadError == [err |-> TRUE, data |-> <<>>]

Datagram(d) == [err |-> FALSE, data |-> d]

HelloReads ==
    {ReadError} \cup
    { Datagram(SubSeq(HelloReplyFrame(ident), 1, n)) : ident \in Identities, n \in HelloLens }

DeviceIdent == [id |-> <<0, 0, 0, 1>>, stamp |-> <<0, 0, 0, 3>>]

\* a well-framed reply carrying text under the device's secret t
ReplyFrame(t, text) ==
    buildPacket(t, DeviceIdent.id, DeviceIdent.stamp, encryptPayload(text, t).out)

\* a reply whose payload was encrypted without padding
UnpaddedReplyFrame(t, text) ==
    buildPacket(t, DeviceIdent.id, DeviceIdent.stamp,
                CBCEncrypt(DeriveKey(t), DeriveIV(t), text))

CutLens == {0, 16, 31, 32, 40, 47}

CommandReads ==
    {ReadError}
    \cup { Datagram(ReplyFrame(t, text)) : t \in DeviceTokens, text \in DeviceTexts }
    \cup { Datagram(UnpaddedReplyFrame(t, DocOnBlocks)) : t \in DeviceTokens }
    \cup { Datagram(SubSeq(ReplyFrame(t, DocOn), 1, n)) : t \in DeviceTokens, n \in CutLens }
    \cup { Datagram(Zeros(HeaderLen) \o encryptPayload(DocOn, t).out) : t \in DeviceTokens }

\* conn.Read(buf) into buf := make([]byte, 1024): the count and the buffer
ReadN(r) == Min(Len(r.data), BufSize)

EmptyBuf == SubSeq(Zeros(BufSize), 1, BufSize)

ReadBuf(r) == SubSeq(r.data, 1, ReadN(r)) \o SubSeq(EmptyBuf, ReadN(r) + 1, BufSize)

\* ------------------------------------------------------------------- errors
\* an error is the chain of its messages, outermost first; nil is <<>>
Nil == <<>>

Wrap(context, err) == <<context>> \o err

\* ---------------------------------------------------------- discoverDevice
\* discoverDevice from the read on: the identity, or an error and no identity
\* mutant of HelloTooShort: only the device id is required
HelloTooShortForId(n) == n < 12

HelloTooShort(n) == n < MinHelloLen

discoverRead(r) ==
    IF r.err
    THEN [err |-> <<"read">>, deviceID |-> <<>>, stamp |-> <<>>]
    ELSE IF HelloTooShort(ReadN(r))
    THEN [err |-> <<"hello response too short">>, deviceID |-> <<>>, stamp |-> <<>>]
    ELSE [err |-> Nil,
          deviceID |-> Slice(ReadBuf(r), 8, 12),
          stamp |-> Slice(ReadBuf(r), 12, 16)]

\* ------------------------------------------------------------------ command
\* strings are tuples of characters; their bytes
LowerCase ==
    <<"a", "b", "c", "d", "e", "f", "g", "h", "i", "j", "k", "l", "m",
      "n", "o", "p", "q", "r", "s", "t", "u", "v", "w", "x", "y", "z">>

CharCode(ch) ==
    IF ch = "_" THEN 95
    ELSE 96 + CHOOSE i \in 1..Len(LowerCase) : LowerCase[i] = ch

Bytes(str) == [i \in 1..Len(str) |-> CharCode(str[i])]

\* the command map of getSwitch
getPropCommand ==
    [id |-> 1, method |-> <<"g", "e", "t", "_", "p", "r", "o", "p">>,
     params |-> << <<"p", "o", "w", "e", "r">> >>]

\* mutant of setPowerCommand: the two states exchanged
setPowerCommandInverted(powerOn) ==
    [id |-> 1, method |-> <<"s", "e", "t", "_", "p", "o", "w", "e", "r">>,
     params |-> << IF powerOn THEN <<"o", "f", "f">> ELSE <<"o", "n">> >>]

\* the command map of setPower
setPowerCommand(powerOn) ==
    [id |-> 1, method |-> <<"s", "e", "t", "_", "p", "o", "w", "e", "r">>,
     params |-> << IF powerOn THEN <<"o", "n">> ELSE <<"o", "f", "f">> >>]

\* json.Marshal of a map with the keys id, method and params: the keys in
\* sorted order, no spaces, id a one-digit number, params a list of strings
Quoted(str) == <<34>> \o Bytes(str) \o <<34>>

RECURSIVE QuotedList(_)
QuotedList(list) ==
    IF Len(list) = 0 THEN <<>>
    ELSE IF Len(list) = 1 THEN Quoted(list[1])
    ELSE Quoted(list[1]) \o <<44>> \o QuotedList(Tail(list))

jsonMarshal(command) ==
    <<123>> \o Quoted(<<"i", "d">>) \o <<58, 48 + command.id>>
    \o <<44>> \o Quoted(<<"m", "e", "t", "h", "o", "d">>) \o <<58>> \o Quoted(command.method)
    \o <<44>> \o Quoted(<<"p", "a", "r", "a", "m", "s">>) \o <<58, 91>>
    \o QuotedList(command.params) \o <<93, 125>>

\* json.Marshal(command) of setPower and of getSwitch
commandJSON(kind, on) ==
    IF kind = "get" THEN jsonMarshal(getPropCommand)
    ELSE jsonMarshal(setPowerCommand(on))

\* mutant of commandPacket: device id and stamp passed in the wrong order
commandPacketSwapped(kind, on, tokenBytes, deviceID, stamp) ==
    buildPacket(tokenBytes, stamp, deviceID,
                encryptPayload(commandJSON(kind, on), tokenBytes).out)

\* marshal, encrypt and frame the command
commandPacket(kind, on, tokenBytes, deviceID, stamp) ==
    buildPacket(tokenBytes, deviceID, stamp,
                encryptPayload(commandJSON(kind, on), tokenBytes).out)

\* mutant of ReplyTooShort: off by one
ReplyTooShortOffByOne(n) == n < HeaderLen - 1

\* mutant of ReplyTooShort: a header with no payload is too short as well
ReplyTooShortInclusive(n) == n <= HeaderLen

ReplyTooShort(n) == n < HeaderLen

\* mutant of PowerIsOn: the last element instead of the first
PowerIsOnLast(result) == result[Len(result)] = "on"

\* resp.Result[0] == "on"
PowerIsOn(result) == result[1] = "on"

\* mutant of getSwitchDecode: a reply that does not start with the magic bytes
\* is refused
getSwitchDecodeMagic(tokenBytes, r) ==
    IF ReplyTooShort(ReadN(r))
    THEN [on |-> FALSE, err |-> <<"response too short">>, did |-> {}]
    ELSE IF SubSeq(ReadBuf(r), 1, 2) # <<33, 49>>
    THEN [on |-> FALSE, err |-> <<"bad magic">>, did |-> {}]
    ELSE LET dec == decryptPayload(Slice(ReadBuf(r), 32, ReadN(r)), tokenBytes)
             resp == jsonUnmarshal(dec.out)
         IN IF dec.err
            THEN [on |-> FALSE,
                  err |-> Wrap("decrypting response", <<"length is not a multiple of block size">>),
                  did |-> {"decrypt"}]
            ELSE IF resp.err
            THEN [on |-> FALSE, err |-> Wrap("parsing response", <<"json">>),
                  did |-> {"decrypt", "unmarshal"}]
            ELSE IF Len(resp.result) > 0
            THEN [on |-> PowerIsOn(resp.result), err |-> Nil,
                  did |-> {"decrypt", "unmarshal"}]
            ELSE [on |-> FALSE, err |-> <<"no power state in response">>,
                  did |-> {"decrypt", "unmarshal"}]

\* getSwitch after a successful read: length check, decryption, JSON decoding;
\* did records the decoding steps run
getSwitchDecode(tokenBytes, r) ==
    IF ReplyTooShort(ReadN(r))
    THEN [on |-> FALSE, err |-> <<"response too short">>, did |-> {}]
    ELSE LET dec == decryptPayload(Slice(ReadBuf(r), 32, ReadN(r)), tokenBytes)
         IN IF dec.err
            THEN [on |-> FALSE,
                  err |-> Wrap("decrypting response", <<"length is not a multiple of block size">>),
                  did |-> {"decrypt"}]
            ELSE LET resp == jsonUnmarshal(dec.out)
                 IN IF resp.err
                    THEN [on |-> FALSE, err |-> Wrap("parsing response", <<"json">>),
                          did |-> {"decrypt", "unmarshal"}]
                    ELSE IF Len(resp.result) > 0
                    THEN [on |-> PowerIsOn(resp.result), err |-> Nil,
                          did |-> {"decrypt", "unmarshal"}]
                    ELSE [on |-> FALSE, err |-> <<"no power state in response">>,
                          did |-> {"decrypt", "unmarshal"}]

\* mutant of getSwitchRead: a failed read is ignored as in setPower
getSwitchReadLenient(tokenBytes, r) ==
    IF r.err
    THEN [on |-> FALSE, err |-> Nil, did |-> {}]
    ELSE getSwitchDecode(tokenBytes, r)

\* getSwitch from the read of the reply on: a failed read is an error
getSwitchRead(tokenBytes, r) ==
    IF r.err
    THEN [on |-> FALSE, err |-> Wrap("reading response", <<"read">>), did |-> {}]
    ELSE getSwitchDecode(tokenBytes, r)

\* mutant of setPowerRead: a failed read is returned
setPowerReadChecked(r) ==
    [on |-> FALSE, err |-> IF r.err THEN <<"read">> ELSE Nil, did |-> {}]

\* setPower from the read of the reply on: the read's outcome is discarded
setPowerRead(r) == [on |-> FALSE, err |-> Nil, did |-> {}]

\* -------------------------------------------------------------------- state
VARIABLES
    calls,   \* per call slot: the frame of one setSwitch/getSwitch call
    learned, \* history: the identities discovery has returned so far
    cstep,   \* codec harness: "off", "in", "encrypted", "decrypted", "rawDecrypted", "wireDecrypted", "replied", "built"
    cin,     \* codec harness: the arguments
    cout,    \* codec harness: the results
    driver,  \* Alpaca server: the SwitchDriver the handlers share
    handlers, \* Alpaca server: per goroutine, the frame of the request it serves
    served   \* Alpaca server history: the ids handed out and the responses written

clientVars == <<calls, learned, cstep, cin, cout>>

serverVars == <<driver, handlers, served>>

vars == <<calls, learned, cstep, cin, cout, driver, handlers, served>>

Calls == 1..NumCalls

\* a call slot with no call in it
IdleCall ==
    [pc |-> "idle", kind |-> "none", token |-> <<>>, on |-> FALSE,
     tokenBytes |-> <<>>, deviceID |-> <<>>, stamp |-> <<>>, packet |-> <<>>,
     disc |-> "none", cmd |-> "none", sent |-> <<>>, reads |-> <<>>, did |-> {},
     ret |-> [on |-> FALSE, err |-> Nil]]

NoResult == [err |-> FALSE, out |-> <<>>]

CodecOff == cstep = "off" /\ cin = [fn |-> "none"] /\ cout = [fn |-> "none"]

Finish(call, on, err) == [call EXCEPT !.pc = "done", !.ret = [on |-> on, err |-> err]]

\* ------------------------------------------------- Alpaca server: state
Handlers == 1..NumHandlers

\* a uint32 as its two 16-bit halves
U32(hi, lo) == [hi |-> hi, lo |-> lo]

\* v++ on a uint32
Inc32(v) ==
    IF v.lo = Uint16Mod - 1
    THEN U32((v.hi + 1) % Uint16Mod, 0)
    ELSE U32(v.hi, v.lo + 1)

\* sync.RWMutex: the goroutine that holds it for writing (0: none) and the
\* goroutines that hold it for reading
Unlocked == [writer |-> 0, readers |-> {}]

\* a float64: a number (in tenths), an infinity or NaN
Float(tenths) == [kind |-> "num", tenths |-> tenths]

NaN == [kind |-> "nan", tenths |-> 0]

PosInf == [kind |-> "inf", tenths |-> 1]

NegInf == [kind |-> "inf", tenths |-> -1]

\* a < b and a > b on float64: false whenever one of the two is NaN
FloatLess(a, b) ==
    /\ a.kind # "nan" /\ b.kind # "nan"
    /\ CASE a.kind = "num" /\ b.kind = "num" -> a.tenths < b.tenths
         [] a.kind = "inf" /\ b.kind = "num" -> a.tenths < 0
         [] a.kind = "num" /\ b.kind = "inf" -> b.tenths > 0
         [] a.kind = "inf" /\ b.kind = "inf" -> a.tenths < b.tenths

FloatGreater(a, b) == FloatLess(b, a)

SwitchIds == 0..(MaxSwitch - 1)

\* fmt.Sprintf("Switch %d", i)
DefaultNames == <<"Switch 0", "Switch 1", "Switch 2", "Switch 3", "Switch 4", "Switch 5">>

\* the switches as init() leaves them
NewSwitch(i) ==
    [Name |-> DefaultNames[i + 1], State |-> FALSE, Value |-> Float(0),
     MinValue |-> Float(0), MaxValue |-> Float(10), CanWrite |-> TRUE]

\* the driver as init() leaves it
NewDriver ==
    [mu |-> Unlocked, connected |-> FALSE, serverTransactionID |-> U32(0, 0),
     switches |-> [i \in SwitchIds |-> NewSwitch(i)]]

\* values of the Value member of a response
NilValue == [type |-> "nil"]

BoolValue(b) == [type |-> "bool", v |-> b]

StringValue(s) == [type |-> "string", v |-> s]

FloatValue(f) == [type |-> "float", v |-> f]

\* the frame of a handler: its position, the request (route, Id and parameter
\* as sent), the locals of the handler and of sendResponse
IdleHandler ==
    [pc |-> "idle", route |-> "none", idStr |-> "", str |-> "",
     connected |-> FALSE, sw |-> 0, state |-> FALSE, fvalue |-> Float(0), name |-> "",
     seen |-> <<>>, value |-> NilValue,
     err |-> Nil, loaded |-> U32(0, 0), id |-> U32(0, 0)]

NoneServed(start) ==
    [before |-> start, accepted |-> 0, handed |-> <<>>, responses |-> <<>>]

ServerIdle ==
    /\ driver = NewDriver
    /\ handlers = [h \in Handlers |-> IdleHandler]
    /\ served = NoneServed(U32(0, 0))

\* ------------------------------------------------- setSwitch / getSwitch
\* entry of setSwitch / getSwitch: hex.DecodeString(token)
Invoke(c, kind, token, on) ==
    /\ calls[c].pc = "idle"
    /\ LET dec == HexDecodeString(token)
           call == [IdleCall EXCEPT !.kind = kind, !.token = token, !.on = on]
       IN calls' = [calls EXCEPT ![c] =
            IF dec.err
            THEN Finish(call, FALSE, Wrap("decoding token", <<"encoding/hex">>))
            ELSE [call EXCEPT !.pc = "discDial", !.tokenBytes = dec.out]]
    /\ UNCHANGED <<learned, cstep, cin, cout, serverVars>>

\* mutant of DiscDial: the hello is not written before the reply is read
DiscDialSkipsHello(c, ok) ==
    /\ calls[c].pc = "discDial"
    /\ calls' = [calls EXCEPT ![c] =
         IF ok
         THEN [@ EXCEPT !.pc = "discRead", !.disc = "open"]
         ELSE Finish(@, FALSE, Wrap("discovery", <<"dial">>))]
    /\ UNCHANGED <<learned, cstep, cin, cout, serverVars>>

\* discoverDevice: net.DialTimeout
DiscDial(c, ok) ==
    /\ calls[c].pc = "discDial"
    /\ calls' = [calls EXCEPT ![c] =
         IF ok
         THEN [@ EXCEPT !.pc = "discWrite", !.disc = "open"]
         ELSE Finish(@, FALSE, Wrap("discovery", <<"dial">>))]
    /\ UNCHANGED <<learned, cstep, cin, cout, serverVars>>

\* mutant of DiscWrite: the socket is not closed when the write fails
DiscWriteLeak(c, ok) ==
    /\ calls[c].pc = "discWrite"
    /\ calls' = [calls EXCEPT ![c] =
         IF ok
         THEN [@ EXCEPT !.pc = "discRead",
                        !.sent = Append(@, [sock |-> "disc", data |-> HelloFrame])]
         ELSE Finish(@, FALSE, Wrap("discovery", <<"write">>))]
    /\ UNCHANGED <<learned, cstep, cin, cout, serverVars>>

\* discoverDevice: conn.Write(hello)
DiscWrite(c, ok) ==
    /\ calls[c].pc = "discWrite"
    /\ calls' = [calls EXCEPT ![c] =
         IF ok
         THEN [@ EXCEPT !.pc = "discRead",
                        !.sent = Append(@, [sock |-> "disc", data |-> HelloFrame])]
         ELSE Finish([@ EXCEPT !.disc = "closed"], FALSE, Wrap("discovery", <<"write">>))]
    /\ UNCHANGED <<learned, cstep, cin, cout, serverVars>>

\* mutant of DiscRead: a failed read sends the hello again
DiscReadRetry(c, r) ==
    /\ calls[c].pc = "discRead"
    /\ LET d == discoverRead(r)
           call == [calls[c] EXCEPT !.reads = Append(@, [sock |-> "disc", r |-> r])]
       IN /\ calls' = [calls EXCEPT ![c] =
            IF d.err # Nil
            THEN IF Len(call.reads) < 2
                 THEN [call EXCEPT !.pc = "discWrite"]
                 ELSE Finish([call EXCEPT !.disc = "closed"], FALSE,
                             Wrap("discovery", d.err))
            ELSE [call EXCEPT !.pc = "cmdDial",
                              !.disc = "closed",
                              !.deviceID = d.deviceID,
                              !.stamp = d.stamp,
                              !.packet = commandPacket(call.kind, call.on, call.tokenBytes,
                                                       d.deviceID, d.stamp)]]
          /\ learned' = IF d.err # Nil THEN learned
                        ELSE learned \cup {[id |-> d.deviceID, stamp |-> d.stamp]}
    /\ UNCHANGED <<cstep, cin, cout, serverVars>>

\* mutant of DiscRead: the identity comes from a cache shared by all calls
DiscReadCached(c, r) ==
    /\ calls[c].pc = "discRead"
    /\ LET d == discoverRead(r)
           id == IF learned = {} THEN [id |-> d.deviceID, stamp |-> d.stamp]
                 ELSE CHOOSE i \in learned : TRUE
           call == [calls[c] EXCEPT !.disc = "closed",
                                    !.reads = Append(@, [sock |-> "disc", r |-> r])]
       IN /\ calls' = [calls EXCEPT ![c] =
            IF d.err # Nil
            THEN Finish(call, FALSE, Wrap("discovery", d.err))
            ELSE [call EXCEPT !.pc = "cmdDial",
                              !.deviceID = id.id,
                              !.stamp = id.stamp,
                              !.packet = commandPacket(call.kind, call.on, call.tokenBytes,
                                                       id.id, id.stamp)]]
          /\ learned' = IF d.err # Nil THEN learned
                        ELSE learned \cup {[id |-> d.deviceID, stamp |-> d.stamp]}
    /\ UNCHANGED <<cstep, cin, cout, serverVars>>

\* discoverDevice: conn.Read, the length check and the return; then the
\* caller up to its own net.DialTimeout: marshal, encrypt, buildPacket
DiscRead(c, r) ==
    /\ calls[c].pc = "discRead"
    /\ LET d == discoverRead(r)
           call == [calls[c] EXCEPT !.disc = "closed",
                                    !.reads = Append(@, [sock |-> "disc", r |-> r])]
       IN /\ calls' = [calls EXCEPT ![c] =
            IF d.err # Nil
            THEN Finish(call, FALSE, Wrap("discovery", d.err))
            ELSE [call EXCEPT !.pc = "cmdDial",
                              !.deviceID = d.deviceID,
                              !.stamp = d.stamp,
                              !.packet = commandPacket(call.kind, call.on, call.tokenBytes,
                                                       d.deviceID, d.stamp)]]
          /\ learned' = IF d.err # Nil THEN learned
                        ELSE learned \cup {[id |-> d.deviceID, stamp |-> d.stamp]}
    /\ UNCHANGED <<cstep, cin, cout, serverVars>>

\* setPower / getSwitch: net.DialTimeout
CmdDial(c, ok) ==
    /\ calls[c].pc = "cmdDial"
    /\ calls' = [calls EXCEPT ![c] =
         IF ok
         THEN [@ EXCEPT !.pc = "cmdWrite", !.cmd = "open"]
         ELSE Finish(@, FALSE, <<"dial">>)]
    /\ UNCHANGED <<learned, cstep, cin, cout, serverVars>>

\* mutant of CmdWrite: the error of conn.Write is not looked at
CmdWriteUnchecked(c, ok) ==
    /\ calls[c].pc = "cmdWrite"
    /\ calls' = [calls EXCEPT ![c] =
         [@ EXCEPT !.pc = "cmdRead",
                   !.sent = IF ok THEN Append(@, [sock |-> "cmd", data |-> calls[c].packet])
                            ELSE @]]
    /\ UNCHANGED <<learned, cstep, cin, cout, serverVars>>

\* setPower / getSwitch: conn.Write(packet)
CmdWrite(c, ok) ==
    /\ calls[c].pc = "cmdWrite"
    /\ calls' = [calls EXCEPT ![c] =
         IF ok
         THEN [@ EXCEPT !.pc = "cmdRead",
                        !.sent = Append(@, [sock |-> "cmd", data |-> calls[c].packet])]
         ELSE Finish([@ EXCEPT !.cmd = "closed"], FALSE, <<"write">>)]
    /\ UNCHANGED <<learned, cstep, cin, cout, serverVars>>

\* mutant of CmdRead: after a failed read the command is written again
CmdReadRetry(c, r) ==
    /\ calls[c].pc = "cmdRead"
    /\ LET call == [calls[c] EXCEPT !.cmd = "closed",
                                    !.reads = Append(@, [sock |-> "cmd", r |-> r])]
           res == IF call.kind = "get"
                  THEN getSwitchRead(call.tokenBytes, r)
                  ELSE setPowerRead(r)
       IN calls' = [calls EXCEPT ![c] =
            IF r.err
            THEN [@ EXCEPT !.pc = "cmdWrite", !.sent = SubSeq(@, 1, Len(@) - 1)]
            ELSE Finish([call EXCEPT !.did = res.did], res.on, res.err)]
    /\ UNCHANGED <<learned, cstep, cin, cout, serverVars>>

\* setPower / getSwitch: conn.Read and everything after it
CmdRead(c, r) ==
    /\ calls[c].pc = "cmdRead"
    /\ LET call == [calls[c] EXCEPT !.cmd = "closed",
                                    !.reads = Append(@, [sock |-> "cmd", r |-> r])]
           res == IF call.kind = "get"
                  THEN getSwitchRead(call.tokenBytes, r)
                  ELSE setPowerRead(r)
       IN calls' = [calls EXCEPT ![c] =
            Finish([call EXCEPT !.did = res.did], res.on, res.err)]
    /\ UNCHANGED <<learned, cstep, cin, cout, serverVars>>

\* the caller takes the result; the frame of the call is gone
Return(c) ==
    /\ calls[c].pc = "done"
    /\ calls' = [calls EXCEPT ![c] = IdleCall]
    /\ UNCHANGED <<learned, cstep, cin, cout, serverVars>>

\* a caller that makes one call after the other
NoneActive == \A c \in Calls : calls[c].pc = "idle"

Init ==
    /\ calls = [c \in Calls |-> IdleCall]
    /\ learned = {}
    /\ CodecOff
    /\ ServerIdle

Next ==
    \/ \E c \in Calls, token \in TokenStrings, on \in BOOLEAN :
          NoneActive /\ Invoke(c, "set", token, on)
    \/ \E c \in Calls, token \in TokenStrings :
          NoneActive /\ Invoke(c, "get", token, FALSE)
    \/ \E c \in Calls, ok \in BOOLEAN : DiscDial(c, ok)
    \/ \E c \in Calls, ok \in BOOLEAN : DiscWrite(c, ok)
    \/ \E c \in Calls, r \in HelloReads : DiscRead(c, r)
    \/ \E c \in Calls, ok \in BOOLEAN : CmdDial(c, ok)
    \/ \E c \in Calls, ok \in BOOLEAN : CmdWrite(c, ok)
    \/ \E c \in Calls, r \in CommandReads : CmdRead(c, r)
    \/ \E c \in Calls : Return(c)

Spec == Init /\ [][Next]_vars

\* every socket operation completes or runs into its deadline: DialTimeout has
\* its 5 s, Write and Read have the deadline conn.SetDeadline set
SocketsProgress ==
    \A c \in Calls :
        /\ WF_vars(\E ok \in BOOLEAN : DiscDial(c, ok))
        /\ WF_vars(\E ok \in BOOLEAN : DiscWrite(c, ok))
        /\ WF_vars(\E r \in HelloReads : DiscRead(c, r))
        /\ WF_vars(\E ok \in BOOLEAN : CmdDial(c, ok))
        /\ WF_vars(\E ok \in BOOLEAN : CmdWrite(c, ok))
        /\ WF_vars(\E r \in CommandReads : CmdRead(c, r))

SpecLive == Init /\ [][Next]_vars /\ SocketsProgress

\* ------------------------------------------------------- concurrent callers
\* callers that make their calls in parallel (goroutines calling setSwitch
\* and getSwitch), against a device with two possible identities
ConcTokens == {TokenA, TokenB}

ConcHelloReads ==
    {ReadError} \cup { Datagram(HelloReplyFrame(ident)) : ident \in Identities }

ConcCommandReads ==
    {ReadError}
    \cup { Datagram(ReplyFrame(HexDecodeString(TokenA).out, text)) : text \in {DocOn, DocOff} }

ConcNext ==
    \/ \E c \in Calls, token \in ConcTokens : Invoke(c, "set", token, TRUE)
    \/ \E c \in Calls, token \in ConcTokens : Invoke(c, "get", token, FALSE)
    \/ \E c \in Calls, ok \in BOOLEAN : DiscDial(c, ok)
    \/ \E c \in Calls, ok \in BOOLEAN : DiscWrite(c, ok)
    \/ \E c \in Calls, r \in ConcHelloReads : DiscRead(c, r)
    \/ \E c \in Calls, ok \in BOOLEAN : CmdDial(c, ok)
    \/ \E c \in Calls, ok \in BOOLEAN : CmdWrite(c, ok)
    \/ \E c \in Calls, r \in ConcCommandReads : CmdRead(c, r)
    \/ \E c \in Calls : Return(c)

SpecConc == Init /\ [][ConcNext]_vars

\* ------------------------------------------------------------ codec harness
\* encryptPayload, decryptPayload and buildPacket applied to arguments drawn
\* from bounded sets.  A byte string argument is kept in the state as its
\* description d (DataOf(d) is the string): n bytes, all fill but the last,
\* or the k-th of the texts below.
PlainOf(n, fill, last) == [i \in 1..n |-> IF i = n THEN last ELSE fill]

CodecTexts ==
    <<CmdGetProp, CmdSetOn, CmdSetOff,
      encryptPayload(CmdGetProp, HexDecodeString(TokenA).out).out>>

DataOf(d) ==
    IF d.kind = "text" THEN CodecTexts[d.n] ELSE PlainOf(d.n, d.fill, d.last)

FillBytes == {0, 65}

LastBytes == {0, 1, 2, 15, 16, 17, 125, 255}

Plaintexts ==
    { [kind |-> "fill", n |-> n, fill |-> fill, last |-> last] :
          n \in 0..MaxPlainLen, fill \in FillBytes, last \in LastBytes }
    \cup { [kind |-> "text", n |-> k, fill |-> 0, last |-> 0] : k \in 1..3 }

\* byte tokens of 16 bytes and of other lengths (md5 takes any)
CodecTokens ==
    DeviceTokens \cup { <<>>, HexDecodeString(SubSeq(TokenA, 1, 30)).out }

\* payload lengths around the largest packet a 16-bit length field can state
LargePayloadLens ==
    { Uint16Mod - HeaderLen - 1, Uint16Mod - HeaderLen, Uint16Mod - HeaderLen + MaxPayloadLen }

Payloads ==
    { [kind |-> "fill", n |-> n, fill |-> b, last |-> b] :
          n \in 0..MaxPayloadLen, b \in {0, 171} }
    \cup { [kind |-> "text", n |-> 4, fill |-> 0, last |-> 0] }

LargePayloads ==
    { [kind |-> "fill", n |-> n, fill |-> 7, last |-> 7] : n \in LargePayloadLens }

\* what a device may have encrypted: whole blocks with any last byte
RawPlaintexts ==
    { [kind |-> "fill", n |-> n, fill |-> fill, last |-> last] :
          n \in {k \in 0..(MaxPlainLen + BlockSize) : k % BlockSize = 0},
          fill \in FillBytes, last \in LastBytes }

\* what arrives as bytes [32:n] of a reply: any bytes of any length, or one of
\* the documents encrypted under the token
ReplyDocs == <<DocOn, DocOff, DocEmpty, DocNumber, <<>>>>

WirePayloads ==
    Payloads \cup { [kind |-> "doc", n |-> k, fill |-> 0, last |-> 0] : k \in 1..Len(ReplyDocs) }

WirePayloadOf(d, token) ==
    IF d.kind = "doc" THEN encryptPayload(ReplyDocs[d.n], token).out ELSE DataOf(d)

\* the first 32 bytes of a reply: as the device frames them, all zero, with
\* one checksum byte changed, with another device's id and stamp, all 0xFF
HeaderNames == {"good", "zero", "badsum", "foreign", "junk"}

HeaderOf(name, token, payload) ==
    LET good == SubSeq(buildPacket(token, DeviceIdent.id, DeviceIdent.stamp, payload),
                       1, HeaderLen)
    IN CASE name = "good" -> good
         [] name = "zero" -> Zeros(HeaderLen)
         [] name = "badsum" ->
              SubSeq(good, 1, HeaderLen - 1) \o <<(good[HeaderLen] + 1) % 256>>
         [] name = "foreign" ->
              SubSeq(buildPacket(token, <<222, 173, 190, 239>>, <<1, 2, 3, 4>>, payload),
                     1, HeaderLen)
         [] name = "junk" -> Fill(HeaderLen, 255)

\* the arguments of one call of encryptPayload (then decryptPayload), of
\* decryptPayload on the ciphertext of whole blocks or on received bytes, of
\* getSwitch from its read on, or of buildPacket
CodecInputs ==
    { [fn |-> "crypt", data |-> p, token |-> t, deviceID |-> <<>>, stamp |-> <<>>] :
          p \in Plaintexts, t \in CodecTokens }
    \cup
    { [fn |-> "decrypt", data |-> p, token |-> t, deviceID |-> <<>>, stamp |-> <<>>] :
          p \in RawPlaintexts, t \in DeviceTokens }
    \cup
    { [fn |-> "wire", data |-> p, token |-> t, deviceID |-> <<>>, stamp |-> <<>>] :
          p \in WirePayloads, t \in CodecTokens }
    \cup
    { [fn |-> "reply", data |-> p, token |-> t, deviceID |-> <<>>, stamp |-> <<>>,
       header |-> h, other |-> o] :
          p \in WirePayloads, t \in DeviceTokens, h \in HeaderNames, o \in HeaderNames }
    \cup
    { [fn |-> "build", data |-> p, token |-> t, deviceID |-> i.id, stamp |-> i.stamp] :
          p \in Payloads, t \in DeviceTokens, i \in Identities }
    \cup
    { [fn |-> "build", data |-> p, token |-> HexDecodeString(TokenA).out,
       deviceID |-> DeviceIdent.id, stamp |-> DeviceIdent.stamp] : p \in LargePayloads }

\* the harness keeps the length of a built packet and its first KeepLen bytes
KeepLen == HeaderLen + MaxPayloadLen + 3 * BlockSize

NoAnswer == [on |-> FALSE, err |-> Nil, did |-> {}]

NoOutput ==
    [enc |-> NoResult, dec |-> NoResult, len |-> 0, pkt |-> <<>>,
     res |-> NoAnswer, res2 |-> NoAnswer]

CodecEncrypt ==
    /\ cstep = "in"
    /\ cin.fn = "crypt"
    /\ cstep' = "encrypted"
    /\ cout' = [cout EXCEPT !.enc = encryptPayload(DataOf(cin.data), cin.token)]
    /\ UNCHANGED <<calls, learned, cin, serverVars>>

CodecDecrypt ==
    /\ cstep = "encrypted"
    /\ cstep' = "decrypted"
    /\ cout' = [cout EXCEPT !.dec = decryptPayload(cout.enc.out, cin.token)]
    /\ UNCHANGED <<calls, learned, cin, serverVars>>

\* decryptPayload on what a device encrypted without padding it
CodecDecryptRaw ==
    /\ cstep = "in"
    /\ cin.fn = "decrypt"
    /\ cstep' = "rawDecrypted"
    /\ LET enc == CBCEncrypt(DeriveKey(cin.token), DeriveIV(cin.token), DataOf(cin.data))
       IN cout' = [cout EXCEPT !.enc = [err |-> FALSE, out |-> enc],
                               !.dec = decryptPayload(enc, cin.token)]
    /\ UNCHANGED <<calls, learned, cin, serverVars>>

\* decryptPayload on the bytes of a reply's payload
CodecDecryptWire ==
    /\ cstep = "in"
    /\ cin.fn = "wire"
    /\ cstep' = "wireDecrypted"
    /\ cout' = [cout EXCEPT !.dec = decryptPayload(WirePayloadOf(cin.data, cin.token),
                                                   cin.token)]
    /\ UNCHANGED <<calls, learned, cin, serverVars>>

\* getSwitch from conn.Read on, for two replies with the same bytes [32:n]
CodecReply ==
    /\ cstep = "in"
    /\ cin.fn = "reply"
    /\ cstep' = "replied"
    /\ LET payload == WirePayloadOf(cin.data, cin.token)
           reply(name) == Datagram(HeaderOf(name, cin.token, payload) \o payload)
       IN cout' = [cout EXCEPT !.res = getSwitchRead(cin.token, reply(cin.header)),
                               !.res2 = getSwitchRead(cin.token, reply(cin.other))]
    /\ UNCHANGED <<calls, learned, cin, serverVars>>

CodecBuildPacket ==
    /\ cstep = "in"
    /\ cin.fn = "build"
    /\ cstep' = "built"
    /\ LET pkt == buildPacket(cin.token, cin.deviceID, cin.stamp, DataOf(cin.data))
       IN cout' = [cout EXCEPT !.len = Len(pkt),
                               !.pkt = SubSeq(pkt, 1, Min(Len(pkt), KeepLen))]
    /\ UNCHANGED <<calls, learned, cin, serverVars>>

CodecInit ==
    /\ calls = [c \in Calls |-> IdleCall]
    /\ learned = {}
    /\ cstep = "in"
    /\ cin \in CodecInputs
    /\ cout = NoOutput
    /\ ServerIdle

CodecNext ==
    \/ CodecEncrypt
    \/ CodecDecrypt
    \/ CodecDecryptRaw
    \/ CodecDecryptWire
    \/ CodecReply
    \/ CodecBuildPacket

SpecCodec == CodecInit /\ [][CodecNext]_vars

\* ------------------------------------------------------- Alpaca server
\* strconv.ParseBool
TrueTexts == {"1", "t", "T", "TRUE", "true", "True"}

FalseTexts == {"0", "f", "F", "FALSE", "false", "False"}

ParseBool(str) ==
    [err |-> str \notin TrueTexts \cup FalseTexts, v |-> str \in TrueTexts]

\* the Connected form values the clients of the model send
ConnectedTexts == {"true", "false", "True", "0", "yes", ""}

GenericError == 1280

\* the router starts a handler: handleDescription and its like (the route
\* "description": handlers that only call sendResponse), handleConnected up to
\* its first lock, the management handlers (they write their JSON themselves)
Accept(h, route, str) ==
    /\ handlers[h].pc = "idle"
    /\ served.accepted < MaxRequests
    /\ served' = [served EXCEPT !.accepted = @ + 1]
    /\ handlers' = [handlers EXCEPT ![h] =
         CASE route = "description" ->
                [@ EXCEPT !.pc = "send", !.route = route,
                          !.value = StringValue("Description")]
           [] route = "getConnected" ->
                [@ EXCEPT !.pc = "rlock", !.route = route]
           [] route = "putConnected" ->
                IF ParseBool(str).err
                THEN [@ EXCEPT !.pc = "send", !.route = route,
                               !.err = <<"invalid Connected parameter">>]
                ELSE [@ EXCEPT !.pc = "lock", !.route = route,
                               !.connected = ParseBool(str).v]
           [] route = "management" ->
                [@ EXCEPT !.pc = "raw", !.route = route]
           [] route = "status" ->
                [@ EXCEPT !.pc = "stRLock", !.route = route]]
    /\ UNCHANGED <<driver, clientVars>>

\* handleConnected GET: driver.mu.RLock()
ConnectedRLock(h) ==
    /\ handlers[h].pc = "rlock"
    /\ driver.mu.writer = 0
    /\ driver' = [driver EXCEPT !.mu.readers = @ \cup {h}]
    /\ handlers' = [handlers EXCEPT ![h].pc = "read"]
    /\ UNCHANGED <<served, clientVars>>

\* handleConnected GET: connected := driver.connected; driver.mu.RUnlock()
ConnectedRead(h) ==
    /\ handlers[h].pc = "read"
    /\ driver' = [driver EXCEPT !.mu.readers = @ \ {h}]
    /\ handlers' = [handlers EXCEPT ![h].pc = "send",
                                    ![h].value = BoolValue(driver.connected)]
    /\ UNCHANGED <<served, clientVars>>

\* handleConnected PUT: driver.mu.Lock()
ConnectedLock(h) ==
    /\ handlers[h].pc = "lock"
    /\ driver.mu = Unlocked
    /\ driver' = [driver EXCEPT !.mu.writer = h]
    /\ handlers' = [handlers EXCEPT ![h].pc = "write"]
    /\ UNCHANGED <<served, clientVars>>

\* handleConnected PUT: driver.connected = connected; driver.mu.Unlock()
ConnectedWrite(h) ==
    /\ handlers[h].pc = "write"
    /\ driver' = [driver EXCEPT !.connected = handlers[h].connected,
                                !.mu.writer = 0]
    /\ handlers' = [handlers EXCEPT ![h].pc = "send"]
    /\ UNCHANGED <<served, clientVars>>

\* strconv.Atoi on the Id texts of the model
IntTexts ==
    { [text |-> "0", n |-> 0], [text |-> "5", n |-> 5], [text |-> "6", n |-> 6],
      [text |-> "-1", n |-> -1] }

Atoi(str) ==
    IF \E t \in IntTexts : t.text = str
    THEN [err |-> FALSE, n |-> (CHOOSE t \in IntTexts : t.text = str).n]
    ELSE [err |-> TRUE, n |-> 0]

validateSwitchID(idStr) ==
    IF Atoi(idStr).err
    THEN [err |-> <<"invalid switch ID">>, id |-> 0]
    ELSE IF Atoi(idStr).n < 0 \/ Atoi(idStr).n >= MaxSwitch
    THEN [err |-> <<"switch ID out of range">>, id |-> 0]
    ELSE [err |-> Nil, id |-> Atoi(idStr).n]

\* strconv.ParseFloat(str, 64) on the Value texts of the model: it reads
\* "NaN" and "Inf" as the values they name
FloatTexts ==
    { [text |-> "0", f |-> Float(0)], [text |-> "0.5", f |-> Float(5)],
      [text |-> "1", f |-> Float(10)], [text |-> "1.5", f |-> Float(15)],
      [text |-> "-0.5", f |-> Float(-5)], [text |-> "NaN", f |-> NaN],
      [text |-> "Inf", f |-> PosInf], [text |-> "-Inf", f |-> NegInf] }

ParseFloat(str) ==
    IF \E t \in FloatTexts : t.text = str
    THEN [err |-> FALSE, f |-> (CHOOSE t \in FloatTexts : t.text = str).f]
    ELSE [err |-> TRUE, f |-> Float(0)]

\* the Id, State, Value and Name texts the clients of the model send
IdTexts == {"0", "5", "6", "-1", "x"}

StateTexts == {"true", "false", "yes"}

ValueTexts == {"0", "0.5", "1", "1.5", "-0.5", "NaN", "Inf", "x"}

NameTexts == {"", "Dew Heater"}

\* handleGetSwitch, handleGetSwitchValue, handleSetSwitch, handleSetSwitchName,
\* handleSetSwitchValue up to their lock: validateSwitchID and the parsing of
\* the parameter
AcceptSwitch(h, route, idStr, str) ==
    /\ handlers[h].pc = "idle"
    /\ served.accepted < MaxRequests
    /\ served' = [served EXCEPT !.accepted = @ + 1]
    /\ LET request == [IdleHandler EXCEPT !.route = route, !.idStr = idStr, !.str = str]
           valid == [request EXCEPT !.sw = validateSwitchID(idStr).id]
           failed(msg) == [request EXCEPT !.pc = "send", !.err = <<msg>>]
       IN handlers' = [handlers EXCEPT ![h] =
            IF validateSwitchID(idStr).err # Nil
            THEN [request EXCEPT !.pc = "send", !.err = validateSwitchID(idStr).err]
            ELSE CASE route \in {"getswitch", "getswitchvalue"} ->
                        [valid EXCEPT !.pc = "swRLock"]
                   [] route = "setswitch" ->
                        IF ParseBool(str).err
                        THEN failed("invalid State parameter")
                        ELSE [valid EXCEPT !.pc = "swLock", !.state = ParseBool(str).v]
                   [] route = "setswitchname" ->
                        IF str = ""
                        THEN failed("Name parameter is required")
                        ELSE [valid EXCEPT !.pc = "swLock", !.name = str]
                   [] route = "setswitchvalue" ->
                        IF ParseFloat(str).err
                        THEN failed("invalid Value parameter")
                        ELSE [valid EXCEPT !.pc = "swLock", !.fvalue = ParseFloat(str).f]]
    /\ UNCHANGED <<driver, clientVars>>

\* handleGetSwitch / handleGetSwitchValue: driver.mu.RLock()
SwitchRLock(h) ==
    /\ handlers[h].pc = "swRLock"
    /\ driver.mu.writer = 0
    /\ driver' = [driver EXCEPT !.mu.readers = @ \cup {h}]
    /\ handlers' = [handlers EXCEPT ![h].pc = "swRead"]
    /\ UNCHANGED <<served, clientVars>>

\* handleGetSwitch / handleGetSwitchValue: the read and driver.mu.RUnlock()
SwitchRead(h) ==
    /\ handlers[h].pc = "swRead"
    /\ driver' = [driver EXCEPT !.mu.readers = @ \ {h}]
    /\ handlers' = [handlers EXCEPT
         ![h].pc = "send",
         ![h].value = IF handlers[h].route = "getswitch"
                      THEN BoolValue(driver.switches[handlers[h].sw].State)
                      ELSE FloatValue(driver.switches[handlers[h].sw].Value)]
    /\ UNCHANGED <<served, clientVars>>

\* handleSetSwitch / handleSetSwitchName / handleSetSwitchValue: driver.mu.Lock()
SwitchLock(h) ==
    /\ handlers[h].pc = "swLock"
    /\ driver.mu = Unlocked
    /\ driver' = [driver EXCEPT !.mu.writer = h]
    /\ handlers' = [handlers EXCEPT ![h].pc = "swWrite"]
    /\ UNCHANGED <<served, clientVars>>

\* value < MinValue || value > MaxValue
ValueOutOfRange(value, switch) ==
    FloatLess(value, switch.MinValue) \/ FloatGreater(value, switch.MaxValue)

\* under the lock: the checks and the first assignment; handleSetSwitchName
\* has one assignment and unlocks
SwitchStoreFirst(h) ==
    /\ handlers[h].pc = "swWrite"
    /\ LET f == handlers[h]
           switch == driver.switches[f.sw]
           refused(msg) ==
               /\ driver' = [driver EXCEPT !.mu.writer = 0]
               /\ handlers' = [handlers EXCEPT ![h].pc = "send", ![h].err = <<msg>>]
       IN IF f.route # "setswitchname" /\ ~switch.CanWrite
          THEN refused("switch is read-only")
          ELSE IF f.route = "setswitchvalue" /\ ValueOutOfRange(f.fvalue, switch)
          THEN refused("value out of range")
          ELSE CASE f.route = "setswitch" ->
                      /\ driver' = [driver EXCEPT !.switches[f.sw].State = f.state]
                      /\ handlers' = [handlers EXCEPT ![h].pc = "swWrite2"]
                 [] f.route = "setswitchvalue" ->
                      /\ driver' = [driver EXCEPT !.switches[f.sw].Value = f.fvalue]
                      /\ handlers' = [handlers EXCEPT ![h].pc = "swWrite2"]
                 [] f.route = "setswitchname" ->
                      /\ driver' = [driver EXCEPT !.switches[f.sw].Name = f.name,
                                                  !.mu.writer = 0]
                      /\ handlers' = [handlers EXCEPT ![h].pc = "send"]
    /\ UNCHANGED <<served, clientVars>>

\* under the lock: the second assignment, then driver.mu.Unlock()
SwitchStoreSecond(h) ==
    /\ handlers[h].pc = "swWrite2"
    /\ LET f == handlers[h]
           switch == driver.switches[f.sw]
       IN driver' = [driver EXCEPT
            !.mu.writer = 0,
            !.switches[f.sw] =
                IF f.route = "setswitch"
                THEN [@ EXCEPT !.Value = IF f.state THEN switch.MaxValue
                                         ELSE switch.MinValue]
                ELSE [@ EXCEPT !.State = FloatGreater(f.fvalue, Float(0))]]
    /\ handlers' = [handlers EXCEPT ![h].pc = "send"]
    /\ UNCHANGED <<served, clientVars>>

\* handleStatusPage: driver.mu.RLock()
StatusRLock(h) ==
    /\ handlers[h].pc = "stRLock"
    /\ driver.mu.writer = 0
    /\ driver' = [driver EXCEPT !.mu.readers = @ \cup {h}]
    /\ handlers' = [handlers EXCEPT ![h].pc = "stState"]
    /\ UNCHANGED <<served, clientVars>>

\* handleStatusPage, sw := driver.switches[i]: the State members
StatusCopyState(h) ==
    /\ handlers[h].pc = "stState"
    /\ handlers' = [handlers EXCEPT
         ![h].pc = "stValue",
         ![h].seen = [i \in SwitchIds |->
                        [State |-> driver.switches[i].State, Value |-> Float(0)]]]
    /\ UNCHANGED <<driver, served, clientVars>>

\* handleStatusPage, sw := driver.switches[i]: the Value members
StatusCopyValue(h) ==
    /\ handlers[h].pc = "stValue"
    /\ handlers' = [handlers EXCEPT
         ![h].pc = "stWrite",
         ![h].seen = [i \in SwitchIds |->
                        [@[i] EXCEPT !.Value = driver.switches[i].Value]]]
    /\ UNCHANGED <<driver, served, clientVars>>

\* handleStatusPage: w.Write(html), then the deferred driver.mu.RUnlock()
StatusRespond(h) ==
    /\ handlers[h].pc = "stWrite"
    /\ driver' = [driver EXCEPT !.mu.readers = @ \ {h}]
    /\ served' = [served EXCEPT !.responses = Append(@,
         [handler |-> h, route |-> handlers[h].route, alpaca |-> FALSE])]
    /\ handlers' = [handlers EXCEPT ![h] = IdleHandler]
    /\ UNCHANGED clientVars

\* mutant of TxnLock: the lock is taken whoever holds it
TxnLockNoExclusion(h) ==
    /\ handlers[h].pc = "send"
    /\ driver' = [driver EXCEPT !.mu.writer = h]
    /\ handlers' = [handlers EXCEPT ![h].pc = "txnLoad"]
    /\ UNCHANGED <<served, clientVars>>

\* sendResponse, getNextServerTransactionID: driver.mu.Lock()
TxnLock(h) ==
    /\ handlers[h].pc = "send"
    /\ driver.mu = Unlocked
    /\ driver' = [driver EXCEPT !.mu.writer = h]
    /\ handlers' = [handlers EXCEPT ![h].pc = "txnLoad"]
    /\ UNCHANGED <<served, clientVars>>

\* driver.serverTransactionID++: the load
TxnLoad(h) ==
    /\ handlers[h].pc = "txnLoad"
    /\ handlers' = [handlers EXCEPT ![h].pc = "txnStore",
                                    ![h].loaded = driver.serverTransactionID]
    /\ UNCHANGED <<driver, served, clientVars>>

\* driver.serverTransactionID++: the store
TxnStore(h) ==
    /\ handlers[h].pc = "txnStore"
    /\ driver' = [driver EXCEPT !.serverTransactionID = Inc32(handlers[h].loaded)]
    /\ handlers' = [handlers EXCEPT ![h].pc = "txnReturn"]
    /\ UNCHANGED <<served, clientVars>>

\* return driver.serverTransactionID, then the deferred driver.mu.Unlock()
TxnReturn(h) ==
    /\ handlers[h].pc = "txnReturn"
    /\ driver' = [driver EXCEPT !.mu.writer = 0]
    /\ handlers' = [handlers EXCEPT ![h].pc = "respond",
                                    ![h].id = driver.serverTransactionID]
    /\ served' = [served EXCEPT !.handed = Append(@, driver.serverTransactionID)]
    /\ UNCHANGED clientVars

\* sendResponse: the AlpacaResponse and its encoding to the client
Respond(h) ==
    /\ handlers[h].pc = "respond"
    /\ served' = [served EXCEPT !.responses = Append(@,
         [handler |-> h, route |-> handlers[h].route, alpaca |-> TRUE,
          idStr |-> handlers[h].idStr, str |-> handlers[h].str,
          ServerTransactionID |-> handlers[h].id,
          ErrorNumber |-> IF handlers[h].err # Nil THEN GenericError ELSE 0,
          ErrorMessage |-> handlers[h].err,
          Value |-> IF handlers[h].err # Nil THEN NilValue ELSE handlers[h].value])]
    /\ handlers' = [handlers EXCEPT ![h] = IdleHandler]
    /\ UNCHANGED <<driver, clientVars>>

\* handleAPIVersions, handleManagementDescription, handleConfiguredDevices:
\* the JSON document is written as it is, not as an AlpacaResponse
ManagementRespond(h) ==
    /\ handlers[h].pc = "raw"
    /\ served' = [served EXCEPT !.responses = Append(@,
         [handler |-> h, route |-> handlers[h].route, alpaca |-> FALSE])]
    /\ handlers' = [handlers EXCEPT ![h] = IdleHandler]
    /\ UNCHANGED <<driver, clientVars>>

\* the counter at its start and two steps before it wraps
StartIDs == {U32(0, 0), U32(Uint16Mod - 1, Uint16Mod - 2)}

AlpacaInit ==
    /\ calls = [c \in Calls |-> IdleCall]
    /\ learned = {}
    /\ CodecOff
    /\ driver \in {[NewDriver EXCEPT !.serverTransactionID = start] : start \in StartIDs}
    /\ handlers = [h \in Handlers |-> IdleHandler]
    /\ served = NoneServed(driver.serverTransactionID)

AlpacaNext ==
    \/ \E h \in Handlers : Accept(h, "description", "")
    \/ \E h \in Handlers : Accept(h, "getConnected", "")
    \/ \E h \in Handlers, str \in ConnectedTexts : Accept(h, "putConnected", str)
    \/ \E h \in Handlers : Accept(h, "management", "")
    \/ \E h \in Handlers : ConnectedRLock(h)
    \/ \E h \in Handlers : ConnectedRead(h)
    \/ \E h \in Handlers : ConnectedLock(h)
    \/ \E h \in Handlers : ConnectedWrite(h)
    \/ \E h \in Handlers : TxnLock(h)
    \/ \E h \in Handlers : TxnLoad(h)
    \/ \E h \in Handlers : TxnStore(h)
    \/ \E h \in Handlers : TxnReturn(h)
    \/ \E h \in Handlers : Respond(h)
    \/ \E h \in Handlers : ManagementRespond(h)

SpecAlpaca == AlpacaInit /\ [][AlpacaNext]_vars

\* the whole server: the routes above, the switch routes and the status page
SwitchNext ==
    \/ AlpacaNext
    \/ \E h \in Handlers : Accept(h, "status", "")
    \/ \E h \in Handlers, idStr \in IdTexts : AcceptSwitch(h, "getswitch", idStr, "")
    \/ \E h \in Handlers, idStr \in IdTexts : AcceptSwitch(h, "getswitchvalue", idStr, "")
    \/ \E h \in Handlers, idStr \in IdTexts, str \in StateTexts :
          AcceptSwitch(h, "setswitch", idStr, str)
    \/ \E h \in Handlers, idStr \in IdTexts, str \in NameTexts :
          AcceptSwitch(h, "setswitchname", idStr, str)
    \/ \E h \in Handlers, idStr \in IdTexts, str \in ValueTexts :
          AcceptSwitch(h, "setswitchvalue", idStr, str)
    \/ \E h \in Handlers : SwitchRLock(h)
    \/ \E h \in Handlers : SwitchRead(h)
    \/ \E h \in Handlers : SwitchLock(h)
    \/ \E h \in Handlers : SwitchStoreFirst(h)
    \/ \E h \in Handlers : SwitchStoreSecond(h)
    \/ \E h \in Handlers : StatusRLock(h)
    \/ \E h \in Handlers : StatusCopyState(h)
    \/ \E h \in Handlers : StatusCopyValue(h)
    \/ \E h \in Handlers : StatusRespond(h)

SpecSwitches == AlpacaInit /\ [][SwitchNext]_vars

\* ------------------------------------------------------------------ claims
\* what a call has done so far, read off its frame
InCall(call) == call.kind # "none"

Done(call) == call.pc = "done"

HelloSent(call) == \E i \in 1..Len(call.sent) : call.sent[i].sock = "disc"

CommandSent(call) == \E i \in 1..Len(call.sent) : call.sent[i].sock = "cmd"

SocketOpened(call) == call.disc # "none" \/ call.cmd # "none"

HasRead(call, sock) == \E i \in 1..Len(call.reads) : call.reads[i].sock = sock

ReadOf(call, sock) ==
    call.reads[CHOOSE i \in 1..Len(call.reads) : call.reads[i].sock = sock].r

\* C1: a token string that is not 32 hex digits is rejected with the token
\* error before any socket is opened: no hello and no command datagram is sent.
C1_MalformedTokenRejected ==
    \A c \in Calls :
        (InCall(calls[c]) /\ ~WellFormedToken(calls[c].token))
        => /\ Done(calls[c])
           /\ calls[c].ret.err # Nil
           /\ calls[c].ret.err[1] = "decoding token"
           /\ ~SocketOpened(calls[c])
           /\ calls[c].sent = <<>>

\* C2: setSwitch returns success whenever the command datagram was written,
\* whatever the read of the reply gave (a datagram of any size, or an error).
C2_SetSucceedsOnceWritten ==
    \A c \in Calls :
        (calls[c].kind = "set" /\ Done(calls[c]) /\ CommandSent(calls[c]))
        => /\ calls[c].ret.err = Nil
           /\ HasRead(calls[c], "cmd")

C2_Witness ==
    \E c \in Calls :
        /\ calls[c].kind = "set" /\ Done(calls[c]) /\ CommandSent(calls[c])
        /\ HasRead(calls[c], "cmd") /\ ReadOf(calls[c], "cmd").err
        /\ calls[c].ret.err = Nil

\* C3: in getSwitch a reply of fewer than 32 bytes ends the call with the
\* reply-too-short error, with no decryption and no JSON decoding attempted
\* and no state reported.
C3_ShortReplyRejected ==
    \A c \in Calls :
        (/\ calls[c].kind = "get" /\ HasRead(calls[c], "cmd")
         /\ ~ReadOf(calls[c], "cmd").err
         /\ Len(ReadOf(calls[c], "cmd").data) < 32)
        => /\ Done(calls[c])
           /\ calls[c].ret.err = <<"response too short">>
           /\ calls[c].ret.on = FALSE
           /\ calls[c].did = {}

C3_Witness ==
    \E c \in Calls :
        /\ calls[c].kind = "get" /\ HasRead(calls[c], "cmd")
        /\ ~ReadOf(calls[c], "cmd").err
        /\ Len(ReadOf(calls[c], "cmd").data) = 31
        /\ calls[c].ret.err = <<"response too short">>

\* C4: in getSwitch a failed read of the reply ends the call with the
\* reading-response error and never with a state; in setSwitch the same
\* failed read leaves the call successful.
C4_GetReplyMandatory ==
    \A c \in Calls :
        (HasRead(calls[c], "cmd") /\ ReadOf(calls[c], "cmd").err)
        => /\ Done(calls[c])
           /\ calls[c].kind = "get"
              => /\ calls[c].ret.err # Nil
                 /\ calls[c].ret.err[1] = "reading response"
                 /\ calls[c].ret.on = FALSE
           /\ calls[c].kind = "set" => calls[c].ret.err = Nil

C4_Witness ==
    \E c \in Calls :
        /\ calls[c].kind = "get" /\ HasRead(calls[c], "cmd")
        /\ ReadOf(calls[c], "cmd").err
        /\ calls[c].ret.err = <<"reading response", "read">>

\* C5: a hello reply shorter than 16 bytes makes discovery return an error
\* and no identity, and the call fails with a discovery error without
\* opening the command socket or sending a command datagram.
C5_ShortHelloRejected ==
    \A c \in Calls :
        (/\ HasRead(calls[c], "disc")
         /\ ~ReadOf(calls[c], "disc").err
         /\ Len(ReadOf(calls[c], "disc").data) < 16)
        => /\ Done(calls[c])
           /\ calls[c].ret.err = <<"discovery", "hello response too short">>
           /\ calls[c].deviceID = <<>> /\ calls[c].stamp = <<>>
           /\ calls[c].packet = <<>>
           /\ calls[c].cmd = "none"
           /\ ~CommandSent(calls[c])

C5_Witness ==
    \E c \in Calls :
        /\ HasRead(calls[c], "disc")
        /\ ~ReadOf(calls[c], "disc").err
        /\ Len(ReadOf(calls[c], "disc").data) = 15
        /\ calls[c].ret.err = <<"discovery", "hello response too short">>

\* C6: the device id and stamp at bytes [8:12] and [12:16] of the command
\* packet a call builds and sends are bytes [8:12] and [12:16] of the hello
\* reply read in that same call, whatever identities earlier calls learned.
C6_IdentityFromOwnHello ==
    \A c \in Calls :
        /\ calls[c].packet # <<>>
           => /\ HasRead(calls[c], "disc")
              /\ Len(ReadOf(calls[c], "disc").data) >= 16
              /\ Slice(calls[c].packet, 8, 16) = Slice(ReadOf(calls[c], "disc").data, 8, 16)
        /\ \A i \in 1..Len(calls[c].sent) :
              calls[c].sent[i].sock = "cmd"
              => Slice(calls[c].sent[i].data, 8, 16) = Slice(ReadOf(calls[c], "disc").data, 8, 16)

\* a call that has sent its command while another identity had been learned before
C6_Witness ==
    \E c \in Calls :
        /\ CommandSent(calls[c])
        /\ \E old \in learned :
              old.id \o old.stamp # Slice(ReadOf(calls[c], "disc").data, 8, 16)

\* the reply a get call has read, taken apart the way the spec describes it
ReplyPayload(call) ==
    LET d == ReadOf(call, "cmd").data IN SubSeq(d, 33, Min(Len(d), BufSize))

ReplyDecrypted(call) == decryptPayload(ReplyPayload(call), call.tokenBytes)

ReplyParsed(call) == jsonUnmarshal(ReplyDecrypted(call).out)

ReplyUsable(call) ==
    /\ Len(ReadOf(call, "cmd").data) >= 32
    /\ ~ReplyDecrypted(call).err
    /\ ~ReplyParsed(call).err
    /\ Len(ReplyParsed(call).result) > 0

\* C7: after a reply was read, getSwitch returns (true, nil) exactly when the
\* decrypted reply parses as JSON whose result array is non-empty with first
\* element "on", (false, nil) when the first element is another string, and
\* an error when the reply is under 32 bytes, decryption fails, parsing fails
\* or the result array is empty.
C7_GetSwitchResult ==
    \A c \in Calls :
        (/\ calls[c].kind = "get" /\ Done(calls[c])
         /\ HasRead(calls[c], "cmd") /\ ~ReadOf(calls[c], "cmd").err)
        => /\ (calls[c].ret.err = Nil /\ calls[c].ret.on)
              <=> (ReplyUsable(calls[c]) /\ ReplyParsed(calls[c]).result[1] = "on")
           /\ (ReplyUsable(calls[c]) /\ ReplyParsed(calls[c]).result[1] # "on")
              => (calls[c].ret.err = Nil /\ ~calls[c].ret.on)
           /\ ~ReplyUsable(calls[c]) => calls[c].ret.err # Nil

\* a get call that read a reply with several result elements and reported a state
C7_Witness ==
    \E c \in Calls :
        /\ calls[c].kind = "get" /\ Done(calls[c])
        /\ HasRead(calls[c], "cmd") /\ ~ReadOf(calls[c], "cmd").err
        /\ ReplyUsable(calls[c])
        /\ Len(ReplyParsed(calls[c]).result) > 1
        /\ calls[c].ret = [on |-> FALSE, err |-> Nil]

\* C8: for every plaintext P (empty, or ending in a byte in 1..16, too) and
\* every token T, decryptPayload(encryptPayload(P, T), T) returns P and no error.
C8_RoundTrip ==
    cstep = "decrypted"
    => /\ ~cout.enc.err
       /\ ~cout.dec.err
       /\ cout.dec.out = DataOf(cin.data)

\* a round trip of a plaintext of one or more whole blocks ending in a pad-like byte
C8_Witness ==
    /\ cstep = "decrypted"
    /\ cin.data.kind = "fill"
    /\ cin.data.n > 0 /\ cin.data.n % BlockSize = 0
    /\ cin.data.last \in 1..BlockSize
    /\ cout.dec.out = DataOf(cin.data)

BigEndian16(pkt, off) == 256 * pkt[off + 1] + pkt[off + 2]

\* length, magic, reserved field and payload of the packet the harness built
\* (the payload as far as the harness kept it)
PacketShape ==
    /\ cout.len = 32 + Len(DataOf(cin.data))
    /\ cout.pkt[1] = 33 /\ cout.pkt[2] = 49
    /\ Slice(cout.pkt, 4, 8) = <<0, 0, 0, 0>>
    /\ Slice(cout.pkt, 32, Len(cout.pkt)) = SubSeq(DataOf(cin.data), 1, Len(cout.pkt) - 32)

\* C9 as claimed: for every payload length the packet has length
\* 32 + len(payload), magic 0x21 0x31, a big-endian length field equal to
\* 32 + len(payload), a zero reserved field and the payload at offset 32.
C9_LengthFieldExact ==
    cstep = "built"
    => /\ PacketShape
       /\ BigEndian16(cout.pkt, 2) = 32 + Len(DataOf(cin.data))

\* C9 as amended: the same, with the length field equal to 32 + len(payload)
\* modulo 2^16, which is 32 + len(payload) for every payload of at most
\* 65503 bytes.
C9_LengthFieldMod16 ==
    cstep = "built"
    => /\ PacketShape
       /\ BigEndian16(cout.pkt, 2) = (32 + Len(DataOf(cin.data))) % 65536
       /\ cin.data.n <= 65503 => BigEndian16(cout.pkt, 2) = 32 + Len(DataOf(cin.data))

\* a built packet whose length needs both bytes of the field
C9_Witness ==
    /\ cstep = "built"
    /\ Len(DataOf(cin.data)) = 65503
    /\ cout.pkt[3] = 255 /\ cout.pkt[4] = 255

\* C10: bytes 16..31 of a built packet are the digest of the packet's own
\* final bytes [0:16], the token and the encrypted payload, and every byte
\* outside 16..31 is as it was before the checksum was inserted.
C10_ChecksumOverFinalHeader ==
    cstep = "built"
    => /\ Slice(cout.pkt, 16, 32)
            = md5sum(Slice(cout.pkt, 0, 16) \o cin.token \o DataOf(cin.data))
       /\ Slice(cout.pkt, 0, 16)
            = <<33, 49, BigEndian16(cout.pkt, 2) \div 256, BigEndian16(cout.pkt, 2) % 256,
                0, 0, 0, 0>> \o cin.deviceID \o cin.stamp
       /\ Slice(cout.pkt, 32, Len(cout.pkt))
            = SubSeq(DataOf(cin.data), 1, Len(cout.pkt) - 32)

\* a built packet with a non-zero identity and a non-empty payload
C10_Witness ==
    /\ cstep = "built"
    /\ Len(DataOf(cin.data)) > 0
    /\ Slice(cout.pkt, 8, 16) = <<222, 173, 190, 239, 1, 2, 3, 4>>
    /\ Slice(cout.pkt, 16, 32) # Zeros(16)


\* C11: encryptPayload pads with pad = 16 - (len(P) mod 16) bytes, each of
\* value pad: the ciphertext has len(P) + pad bytes, a positive multiple of 16,
\* and a plaintext of whole blocks (the empty one too) gets a full extra block.
C11_PaddingLength ==
    cstep \in {"encrypted", "decrypted"}
    => LET n == Len(DataOf(cin.data))
           pad == 16 - (n % 16)
       IN /\ Len(cout.enc.out) = n + pad
          /\ Len(cout.enc.out) > 0 /\ Len(cout.enc.out) % 16 = 0
          /\ n % 16 = 0 => Len(cout.enc.out) = n + 16
          /\ CBCDecrypt(DeriveKey(cin.token), DeriveIV(cin.token), cout.enc.out)
                = DataOf(cin.data) \o [i \in 1..pad |-> pad]

\* an encrypted plaintext of whole blocks
C11_Witness ==
    /\ cstep = "encrypted"
    /\ Len(DataOf(cin.data)) > 0 /\ Len(DataOf(cin.data)) % 16 = 0
    /\ Len(cout.enc.out) = Len(DataOf(cin.data)) + 16


\* C13: every socket a call opened (the discovery socket, the command socket)
\* is closed when the call has returned, on the error paths too; between
\* calls no socket is open.
C13_SocketsClosedAtReturn ==
    \A c \in Calls :
        calls[c].pc \in {"done", "idle"}
        => calls[c].disc # "open" /\ calls[c].cmd # "open"

\* a call that failed after it had opened both sockets, one after the other
C13_Witness ==
    \E c \in Calls :
        /\ Done(calls[c])
        /\ calls[c].ret.err = <<"write">>
        /\ calls[c].disc = "closed" /\ calls[c].cmd = "closed"


\* what one call on its own makes of its inputs and of the two datagrams it reads
AloneIdentity(call) == discoverRead(ReadOf(call, "disc"))

AlonePacket(call) ==
    commandPacket(call.kind, call.on, HexDecodeString(call.token).out,
                  AloneIdentity(call).deviceID, AloneIdentity(call).stamp)

AloneResult(call) ==
    IF call.kind = "get"
    THEN getSwitchRead(HexDecodeString(call.token).out, ReadOf(call, "cmd"))
    ELSE setPowerRead(ReadOf(call, "cmd"))

EachCallAlone ==
    \A c \in Calls :
        /\ calls[c].packet # <<>> => calls[c].packet = AlonePacket(calls[c])
        /\ \A i \in 1..Len(calls[c].sent) :
              calls[c].sent[i].sock = "cmd"
              => calls[c].sent[i].data = AlonePacket(calls[c])
        /\ Done(calls[c]) /\ HasRead(calls[c], "cmd")
           => /\ calls[c].ret.on = AloneResult(calls[c]).on
              /\ calls[c].ret.err = AloneResult(calls[c]).err

OneCallMoves ==
    \A c, o \in Calls : calls'[c] # calls[c] /\ o # c => calls'[o] = calls[o]

\* C14: however the steps of concurrent calls interleave, the command packet and
\* the result of each call are the ones that call computes from its own token,
\* the hello reply it read on its own socket and the command reply it read on its
\* own socket, and a step of one call changes nothing of another call.
C14_ConcurrentCallsIndependent == []EachCallAlone /\ [][OneCallMoves]_vars

\* two calls in flight at once, each waiting for its command reply, with
\* different tokens and different discovered identities
C14_Witness ==
    \E c, o \in Calls :
        /\ c # o
        /\ calls[c].pc = "cmdRead" /\ calls[o].pc = "cmdRead"
        /\ calls[c].token # calls[o].token
        /\ calls[c].deviceID # calls[o].deviceID


\* the failures of a call by the place that returned them
TokenFailure(err) == err # Nil /\ err[1] = "decoding token"

DiscoveryFailure(err) == err # Nil /\ err[1] = "discovery"

CommandSocketFailure(err) == err \in {<<"dial">>, <<"write">>}

\* C15 as stated: a set call fails only if discovery fails or the command socket
\* cannot be opened or written (marshalling and encryption cannot fail for the
\* commands and keys of this program), and succeeds in every other case.
C15_SetFailsOnlyAsListed ==
    \A c \in Calls :
        calls[c].kind = "set" /\ Done(calls[c])
        => /\ calls[c].ret.err # Nil
              => DiscoveryFailure(calls[c].ret.err) \/ CommandSocketFailure(calls[c].ret.err)
           /\ calls[c].ret.err = Nil <=> CommandSent(calls[c])

\* C15 amended: a set call fails only if the token does not decode, discovery
\* fails or the command socket cannot be opened or written; in every other case,
\* that is exactly when the command datagram was written, it returns success.
C15_SetFailureCauses ==
    \A c \in Calls :
        calls[c].kind = "set" /\ Done(calls[c])
        => /\ calls[c].ret.err # Nil
              => \/ TokenFailure(calls[c].ret.err)
                 \/ DiscoveryFailure(calls[c].ret.err)
                 \/ CommandSocketFailure(calls[c].ret.err)
           /\ TokenFailure(calls[c].ret.err) <=> HexDecodeString(calls[c].token).err
           /\ calls[c].ret.err = Nil <=> CommandSent(calls[c])

\* a set call that failed on its token before it opened any socket
C15_Witness ==
    \E c \in Calls :
        /\ calls[c].kind = "set" /\ Done(calls[c])
        /\ TokenFailure(calls[c].ret.err)
        /\ ~SocketOpened(calls[c])


\* the contexts this program puts in front of, or uses as, the errors it returns
PhaseContexts ==
    {"decoding token", "discovery", "reading response", "response too short",
     "decrypting response", "parsing response", "no power state in response"}

CarriesPhase(err) == err # Nil /\ err[1] \in PhaseContexts

\* C16: every error a call returns starts with a context of this program that
\* tells the phase that produced it.
C16_EveryErrorCarriesPhase ==
    \A c \in Calls :
        Done(calls[c]) /\ calls[c].ret.err # Nil => CarriesPhase(calls[c].ret.err)


\* a uint32 and a small number added, modulo 2^32
Add32(v, n) ==
    U32((v.hi + (v.lo + n) \div Uint16Mod) % Uint16Mod, (v.lo + n) % Uint16Mod)

AlpacaResponses ==
    {i \in 1..Len(served.responses) : served.responses[i].alpaca}

IdsHandedOutInOrder ==
    \A k \in 1..Len(served.handed) : served.handed[k] = Add32(served.before, k)

NextPhase(pc) ==
    CASE pc = "idle" -> "discDial"
      [] pc = "discDial" -> "discWrite"
      [] pc = "discWrite" -> "discRead"
      [] pc = "discRead" -> "cmdDial"
      [] pc = "cmdDial" -> "cmdWrite"
      [] pc = "cmdWrite" -> "cmdRead"
      [] pc = "cmdRead" -> "done"
      [] pc = "done" -> "idle"

PhasesInOrder ==
    \A c \in Calls :
        calls'[c].pc # calls[c].pc
        => calls'[c].pc \in {NextPhase(calls[c].pc), "done"}

CommandAfterDiscovery ==
    \A c \in Calls :
        /\ calls[c].cmd # "none"
           => calls[c].disc = "closed"
        /\ calls[c].cmd # "none" \/ CommandSent(calls[c])
           => /\ HelloSent(calls[c])
              /\ HasRead(calls[c], "disc")
              /\ discoverRead(ReadOf(calls[c], "disc")).err = Nil
              /\ calls[c].sent[1].sock = "disc"

\* C18: a call changes its position only to the next phase or to a terminal
\* state; the command socket is opened only once the discovery socket is closed,
\* and the command datagram is sent only after the hello was sent and a valid
\* hello reply was read in the same call.
C18_PhaseOrder == []CommandAfterDiscovery /\ [][PhasesInOrder]_vars

\* a get call that went through every phase and waits for its reply
C18_Witness ==
    \E c \in Calls :
        /\ calls[c].kind = "get" /\ calls[c].pc = "cmdRead"
        /\ calls[c].disc = "closed" /\ calls[c].cmd = "open"
        /\ Len(calls[c].sent) = 2


SentOn(call, sock) == {i \in 1..Len(call.sent) : call.sent[i].sock = sock}

ReadsOn(call, sock) == {i \in 1..Len(call.reads) : call.reads[i].sock = sock}

AtMostOnce ==
    \A c \in Calls :
        /\ \A sock \in {"disc", "cmd"} :
              /\ Cardinality(SentOn(calls[c], sock)) <= 1
              /\ Cardinality(ReadsOn(calls[c], sock)) <= 1
        /\ calls[c].ret.err # Nil => Done(calls[c])
        /\ HasRead(calls[c], "disc") /\ discoverRead(ReadOf(calls[c], "disc")).err # Nil
           => Done(calls[c]) /\ calls[c].ret.err # Nil /\ ~CommandSent(calls[c])

TerminalStays ==
    \A c \in Calls :
        Done(calls[c]) => calls'[c] = calls[c] \/ calls'[c] = IdleCall

\* C19: a call sends at most one hello and at most one command datagram and
\* reads at most once on each socket; a call that has failed is in its terminal
\* state, where it sends and reads nothing more until it is returned.
C19_NoRetry == []AtMostOnce /\ [][TerminalStays]_vars

\* a call whose hello was sent and whose one discovery read failed
C19_Witness ==
    \E c \in Calls :
        /\ Done(calls[c])
        /\ calls[c].ret.err = <<"discovery", "read">>
        /\ Cardinality(SentOn(calls[c], "disc")) = 1
        /\ Cardinality(ReadsOn(calls[c], "disc")) = 1


\* C20: decryptPayload of the ciphertext of whole blocks never fails; it removes
\* the last pad bytes exactly when the last decrypted byte pad is between 1 and
\* 16 and at most the plaintext length, and returns the decrypted bytes as they
\* are for a last byte of 0 or above 16 and for an empty input.
C20_PaddingStrippedOnlyWhenValid ==
    cstep = "rawDecrypted"
    => LET raw == DataOf(cin.data)
           n == Len(raw)
       IN /\ ~cout.dec.err
          /\ IF n > 0 /\ raw[n] >= 1 /\ raw[n] <= 16 /\ raw[n] <= n
             THEN cout.dec.out = SubSeq(raw, 1, n - raw[n])
             ELSE cout.dec.out = raw

\* two blocks that end in the byte 17 come back whole
C20_Witness ==
    /\ cstep = "rawDecrypted"
    /\ cin.data.n = 2 * BlockSize
    /\ cin.data.last = 17
    /\ Len(cout.dec.out) = 2 * BlockSize


DecryptionError(err) == err # Nil /\ err[1] = "decrypting response"

\* C21: encryptPayload fails for no plaintext; decryptPayload returns an error,
\* and no plaintext with it, exactly when the length of its input is not a
\* multiple of 16; getSwitch ends with the decryption error exactly for the
\* replies whose bytes [32:n] have such a length, and then reports no state.
C21_CodecFailsOnlyOnRaggedInput ==
    /\ cstep \in {"encrypted", "decrypted"} => ~cout.enc.err
    /\ cstep = "wireDecrypted"
       => /\ cout.dec.err <=> Len(WirePayloadOf(cin.data, cin.token)) % BlockSize # 0
          /\ cout.dec.err => cout.dec.out = <<>>
    /\ cstep = "replied"
       => /\ DecryptionError(cout.res.err)
             <=> Len(WirePayloadOf(cin.data, cin.token)) % BlockSize # 0
          /\ DecryptionError(cout.res.err) => ~cout.res.on

\* a reply with 17 bytes after its header ends getSwitch in the decryption error
C21_Witness ==
    /\ cstep = "replied"
    /\ cin.data.kind = "fill"
    /\ cin.data.n = BlockSize + 1
    /\ DecryptionError(cout.res.err)


\* C22: the datagram a call writes on its discovery socket is always the same
\* 32 bytes, 0x21 0x31 0x00 0x20 and then 28 bytes 0xFF, whatever the token,
\* the operation and the calls made before; nothing of a device id, stamp,
\* checksum or payload is in it.
C22_HelloFrameFixed ==
    \A c \in Calls :
        \A i \in SentOn(calls[c], "disc") :
            LET hello == calls[c].sent[i].data
            IN /\ Len(hello) = 32
               /\ SubSeq(hello, 1, 4) = <<33, 49, 0, 32>>
               /\ \A k \in 5..32 : hello[k] = 255

\* a hello sent by a call with the second token after an earlier call had
\* learned an identity
C22_Witness ==
    \E c \in Calls :
        /\ HelloSent(calls[c])
        /\ calls[c].token = TokenB
        /\ calls[c].pc = "discRead"
        /\ learned # {}


\* what a device holding the same token reads in the command datagram of a call
CommandText(call) ==
    LET pkt == call.sent[CHOOSE i \in SentOn(call, "cmd") : TRUE].data
    IN decryptPayload(Slice(pkt, HeaderLen, Len(pkt)), call.tokenBytes)

\* C23: the command datagram of a setSwitch call decrypts to
\* {"id":1,"method":"set_power","params":["on"]} when the requested state is
\* true and to {"id":1,"method":"set_power","params":["off"]} when it is false;
\* that of a getSwitch call always decrypts to
\* {"id":1,"method":"get_prop","params":["power"]}, never to a set_power command.
C23_CommandCarried ==
    \A c \in Calls :
        CommandSent(calls[c])
        => /\ ~CommandText(calls[c]).err
           /\ CommandText(calls[c]).out =
                 IF calls[c].kind = "get" THEN CmdGetProp
                 ELSE IF calls[c].on THEN CmdSetOn ELSE CmdSetOff
           /\ calls[c].kind = "get"
              => CommandText(calls[c]).out \notin {CmdSetOn, CmdSetOff}

\* a set call that asked for off and has sent its command
C23_Witness ==
    \E c \in Calls :
        /\ calls[c].kind = "set" /\ ~calls[c].on
        /\ CommandSent(calls[c])
        /\ calls[c].pc = "cmdRead"


SilentDeviceOutcome ==
    \A c \in Calls :
        /\ HasRead(calls[c], "disc") /\ ReadOf(calls[c], "disc").err
           => Done(calls[c]) /\ calls[c].ret.err = <<"discovery", "read">>
        /\ HasRead(calls[c], "cmd") /\ ReadOf(calls[c], "cmd").err
           => /\ Done(calls[c])
              /\ calls[c].ret.err = IF calls[c].kind = "get"
                                    THEN <<"reading response", "read">>
                                    ELSE Nil

\* C24: when every socket operation completes or runs into its deadline, a call
\* that was started reaches its return; a read that ends in the deadline makes
\* discovery fail with the discovery error, getSwitch fail with the read error
\* and setSwitch succeed.
C24_EveryCallReturns ==
    /\ \A c \in Calls : (calls[c].pc # "idle") ~> Done(calls[c])
    /\ []SilentDeviceOutcome

\* a set call that returned success although the device, which had answered
\* the hello, never answered the command
C24_Witness ==
    \E c \in Calls :
        /\ calls[c].kind = "set" /\ Done(calls[c])
        /\ Len(calls[c].reads) = 2
        /\ ~ReadOf(calls[c], "disc").err
        /\ ReadOf(calls[c], "cmd").err
        /\ calls[c].ret.err = Nil


\* a <= b on float64: false whenever one of the two is NaN
FloatLessEq(a, b) == a.kind # "nan" /\ b.kind # "nan" /\ ~FloatLess(b, a)

InRange(value, switch) ==
    FloatLessEq(switch.MinValue, value) /\ FloatLessEq(value, switch.MaxValue)

\* C25: whenever no handler holds the lock for writing, every switch has
\* MinValue <= Value <= MaxValue and State = (Value > 0), and the copy the
\* status page took under the read lock satisfies the same.
C25_SwitchesInRangeAndConsistent ==
    /\ driver.mu.writer = 0
       => \A i \in SwitchIds :
             /\ InRange(driver.switches[i].Value, driver.switches[i])
             /\ driver.switches[i].State
                = FloatGreater(driver.switches[i].Value, Float(0))
    /\ \A h \in Handlers :
          handlers[h].pc = "stWrite"
          => \A i \in SwitchIds :
                /\ InRange(handlers[h].seen[i].Value, driver.switches[i])
                /\ handlers[h].seen[i].State
                   = FloatGreater(handlers[h].seen[i].Value, Float(0))


SwitchRoutes == {"getswitch", "getswitchvalue", "setswitch", "setswitchname", "setswitchvalue"}

\* the requests the claim says are refused: an Id that is no integer in 0..5,
\* an unparsable State, an empty Name, a Value outside [MinValue, MaxValue]
RefusedRequest(route, idStr, str) ==
    /\ route \in SwitchRoutes
    /\ \/ idStr \notin {"0", "1", "2", "3", "4", "5"}
       \/ route = "setswitch" /\ ParseBool(str).err
       \/ route = "setswitchname" /\ str = ""
       \/ /\ route = "setswitchvalue"
          /\ ~ParseFloat(str).err
          /\ \E i \in SwitchIds : ~InRange(ParseFloat(str).f, driver.switches[i])

RefusedAnsweredWithError ==
    \A k \in AlpacaResponses :
        RefusedRequest(served.responses[k].route, served.responses[k].idStr,
                       served.responses[k].str)
        => served.responses[k].ErrorNumber # 0

WritesOnlyOwnSwitch ==
    \A i \in SwitchIds :
        driver'.switches[i] # driver.switches[i]
        => \E h \in Handlers :
              /\ handlers[h].pc \in {"swWrite", "swWrite2"}
              /\ handlers[h].sw = i
              /\ ~RefusedRequest(handlers[h].route, handlers[h].idStr, handlers[h].str)

\* C26: a request with an Id that is no integer in 0..5, a setswitch with an
\* unparsable State, a setswitchname with an empty Name and a setswitchvalue
\* with a Value outside [MinValue, MaxValue] are answered with a non-zero
\* ErrorNumber and change no switch; a write changes only the switch it names.
C26_BadRequestsRefused == []RefusedAnsweredWithError /\ [][WritesOnlyOwnSwitch]_vars


\* C27: two replies with the same bytes [32:n] give getSwitch the same result
\* under the same token, whatever their first 32 bytes are: the device's own
\* header, zeros, a wrong checksum, another device's id and stamp, or 0xFF
\* throughout; the encrypted document "on" is accepted under each of them.
C27_HeaderIgnored ==
    cstep = "replied"
    => /\ cout.res.on = cout.res2.on
       /\ cout.res.err = cout.res2.err
       /\ cin.data.kind = "doc" /\ ReplyDocs[cin.data.n] = DocOn
          => cout.res2.on /\ cout.res2.err = Nil

\* the document "on" under another device's id and stamp, and under the
\* device's own header
C27_Witness ==
    /\ cstep = "replied"
    /\ cin.header = "good" /\ cin.other = "foreign"
    /\ cin.data.kind = "doc" /\ ReplyDocs[cin.data.n] = DocOn
    /\ cout.res2.on


\* C28: a reply of exactly 32 bytes, whatever its header, passes the length
\* check and decryption (an empty plaintext, no error) and fails at JSON
\* parsing; getSwitch never reports success for it.
C28_HeaderOnlyReplyFailsAtParsing ==
    cstep = "replied" /\ Len(WirePayloadOf(cin.data, cin.token)) = 0
    => /\ cout.res.err = Wrap("parsing response", <<"json">>)
       /\ cout.res.did = {"decrypt", "unmarshal"}
       /\ ~cout.res.on
       /\ decryptPayload(<<>>, cin.token) = [err |-> FALSE, out |-> <<>>]

\* a 32-byte reply with the device's own header reached the JSON decoder
C28_Witness ==
    /\ cstep = "replied"
    /\ cin.header = "good"
    /\ cin.data.kind = "fill" /\ cin.data.n = 0
    /\ "unmarshal" \in cout.res.did
    /\ cout.res.err # Nil

====
